---- MODULE Spec2Model ----
(***************************************************************************)
(* Verification model of the CSV materialization pipeline:                 *)
(*   - core/jobs/state_machine.py      JobStateMachine                     *)
(*   - core/materialization/runner.py  MaterializationJobRunner,           *)
(*                                     BaseSchemaWriter and its formats,   *)
(*                                     SpillBuffer, CheckpointStore        *)
(* Each part has its own specification over its own group of variables;    *)
(* the other groups stay at their idle values.                             *)
(***************************************************************************)
EXTENDS Integers, Sequences, FiniteSets, TLC

(***************************************************************************)
(* Bounds                                                                  *)
(***************************************************************************)
\* number of calls made on the job state machine
MaxCalls == 3
\* source files are 1..NumFiles, their lines 0..MaxLine
NumFiles == 1
MaxLine == 2
\* a schema has 1..MaxBlocks blocks
MaxBlocks == 2
\* writer_chunk_rows ranges over 1..MaxChunkRows
MaxChunkRows == 2
\* spill_threshold ranges over 1..MaxThreshold
MaxThreshold == 2
\* interruptions of a materialization run
MaxCrashes == 1
\* ParquetSchemaWriter.FLUSH_ROWS (2048 in the source), scaled to the model
FLUSH_ROWS == 2
\* push calls made on a stand-alone spill buffer
MaxPushes == 3
\* resource ceilings range over None and 1..MaxLimit
MaxLimit == 1
\* reserve arguments range over -1..MaxRequest
MaxRequest == 1
\* reserve and release calls made on a resource manager
MaxResOps == 3
\* distinct resolved paths an input list can name
MaxPaths == 2
\* longest input list of analyze_files
MaxInputs == 3
\* largest profile.max_parallel_files
MaxWorkers == 2
\* longest file handed to the block planner, in lines
MaxTotalLines == 8
\* largest block_size and min_gap_lines of a planner
MaxBlockSize == 4
MaxGap == 3
\* longest schema name, in characters
MaxNameLen == 2
\* chunk files one schema writer opens
MaxChunks == 2
\* save calls made on a checkpoint registry
MaxSaves == 2
\* largest column index, variants per header cluster, clusters per call
MaxIndex == 1
MaxVariants == 1
MaxClusters == 2
\* analysis results handed to the header clusterizer, columns per file
MaxResults == 2
MaxColumns == 2
\* wall-clock readings, record_progress_event calls, and the retention limit
\* (500 in the code) scaled down to the size of the model
MaxClock == 3
MaxEvents == 4
MAX_PROGRESS_EVENTS_PER_SCHEMA == 2
\* longest row and largest hint given to ValidationTracker.normalize, and the
\* largest expected_columns
MaxCells == 3
MaxExpected == 2
\* blocks of a plan handed to iter_block_buffers, the largest line number a
\* block names, the longest file in lines, the largest byte cap
MaxPlanned == 2
MaxEnd == 3
MaxHandleLines == 3
MaxBufferLimit == 2
\* header nodes handed to _link_nodes
MaxNodes == 3
\* largest source_index and target_index of a mapping entry, and the entries
\* a RowNormalizer is built with
MaxSource == 2
MaxTarget == 2
MaxEntries == 2

(***************************************************************************)
(* Generic helpers                                                         *)
(***************************************************************************)
IsPrefix(s, t) == Len(s) <= Len(t) /\ \A i \in 1..Len(s) : s[i] = t[i]

Last(s) == s[Len(s)]

(***************************************************************************)
(* Part 1: JobStateMachine (core/jobs/state_machine.py)                    *)
(***************************************************************************)
VARIABLES
    state,        \* JobStateMachine._state
    sqlite_path,  \* TRUE iff the machine was built with a sqlite path
    lock,         \* holder of JobStateMachine._lock, or NoThread
    jobStatus,    \* state column of the job_status row of this job
    jobEvents,    \* states of the job_events rows of this job, in append order
    stateLog,     \* history: values assigned to _state, in order
    statusLog,    \* history: states upserted into job_status, in order
    pc,           \* position of every caller thread
    op,           \* the call every thread is executing
    result,       \* outcome of the last call of every thread
    calls         \* number of calls started

jobVars == <<state, sqlite_path, lock, jobStatus, jobEvents, stateLog,
             statusLog, pc, op, result, calls>>

Threads == {"t1", "t2"}

NoThread == "none"

JobState == {"PENDING", "ANALYZING", "MAPPING", "MATERIALIZING",
             "VALIDATING", "DONE", "FAILED", "CANCELLED"}

TERMINAL_STATES == {"DONE", "FAILED", "CANCELLED"}

ChainStates == {"PENDING", "ANALYZING", "MAPPING", "MATERIALIZING",
                "VALIDATING", "DONE"}

\* _STATE_ORDER.get(s, -1)
STATE_ORDER(s) ==
    CASE s = "PENDING"       -> 0
      [] s = "ANALYZING"     -> 1
      [] s = "MAPPING"       -> 2
      [] s = "MATERIALIZING" -> 3
      [] s = "VALIDATING"    -> 4
      [] s = "DONE"          -> 5
      [] OTHER               -> -1

can_transition_any_rank(current, target) ==
    IF current \in TERMINAL_STATES THEN FALSE
    ELSE TRUE

\* JobStateMachine._can_transition
can_transition(current, target) ==
    IF current \in TERMINAL_STATES THEN FALSE
    ELSE IF target \in {"FAILED", "CANCELLED"} THEN TRUE
    ELSE STATE_ORDER(target) >= STATE_ORDER(current)

lock_free_unguarded(l) == TRUE

\* threading.Lock: `with self._lock` blocks until the lock is free
lock_free(l) == l = NoThread

NoOp == [kind |-> "none", target |-> "PENDING"]

\* JobStateMachine.__init__: state PENDING, recorded when a path is given
JobInit ==
    /\ state = "PENDING"
    /\ sqlite_path \in BOOLEAN
    /\ lock = NoThread
    /\ jobStatus = IF sqlite_path THEN "PENDING" ELSE "absent"
    /\ jobEvents = IF sqlite_path THEN <<"PENDING">> ELSE <<>>
    /\ stateLog = <<"PENDING">>
    /\ statusLog = IF sqlite_path THEN <<"PENDING">> ELSE <<>>
    /\ pc = [t \in Threads |-> "idle"]
    /\ op = [t \in Threads |-> NoOp]
    /\ result = [t \in Threads |-> "none"]
    /\ calls = 0

JobIdle ==
    /\ state = "PENDING"
    /\ sqlite_path = FALSE
    /\ lock = NoThread
    /\ jobStatus = "absent"
    /\ jobEvents = <<>>
    /\ stateLog = <<"PENDING">>
    /\ statusLog = <<>>
    /\ pc = [t \in Threads |-> "idle"]
    /\ op = [t \in Threads |-> NoOp]
    /\ result = [t \in Threads |-> "none"]
    /\ calls = 0

\* a thread calls transition(target), mark_failed() or mark_cancelled()
call(t, kind, target) ==
    /\ pc[t] = "idle"
    /\ calls < MaxCalls
    /\ calls' = calls + 1
    /\ op' = [op EXCEPT ![t] = [kind |-> kind, target |-> target]]
    /\ result' = [result EXCEPT ![t] = "none"]
    /\ pc' = [pc EXCEPT ![t] = "acquire"]
    /\ UNCHANGED <<state, sqlite_path, lock, jobStatus, jobEvents, stateLog,
                   statusLog>>

\* `with self._lock:` entry
acquire(t) ==
    /\ pc[t] = "acquire"
    /\ lock_free(lock)
    /\ lock' = t
    /\ pc' = [pc EXCEPT ![t] = "locked"]
    /\ UNCHANGED <<state, sqlite_path, jobStatus, jobEvents, stateLog,
                   statusLog, op, result, calls>>

\* JobStateMachine.transition, up to the assignment of _state
transition(t) ==
    /\ pc[t] = "locked"
    /\ op[t].kind = "transition"
    /\ IF op[t].target = state
         THEN /\ result' = [result EXCEPT ![t] = "noop"]
              /\ pc' = [pc EXCEPT ![t] = "release"]
              /\ UNCHANGED <<state, stateLog>>
         ELSE IF ~can_transition(state, op[t].target)
         THEN /\ result' = [result EXCEPT ![t] = "error"]
              /\ pc' = [pc EXCEPT ![t] = "release"]
              /\ UNCHANGED <<state, stateLog>>
         ELSE /\ state' = op[t].target
              /\ stateLog' = Append(stateLog, op[t].target)
              /\ result' = [result EXCEPT ![t] = "ok"]
              /\ pc' = [pc EXCEPT ![t] = "record"]
    /\ UNCHANGED <<sqlite_path, lock, jobStatus, jobEvents, statusLog, op,
                   calls>>

\* JobStateMachine.mark_failed, up to the assignment of _state
mark_failed(t) ==
    /\ pc[t] = "locked"
    /\ op[t].kind = "mark_failed"
    /\ state' = "FAILED"
    /\ stateLog' = Append(stateLog, "FAILED")
    /\ result' = [result EXCEPT ![t] = "ok"]
    /\ pc' = [pc EXCEPT ![t] = "record"]
    /\ UNCHANGED <<sqlite_path, lock, jobStatus, jobEvents, statusLog, op,
                   calls>>

\* JobStateMachine.mark_cancelled, up to the assignment of _state
mark_cancelled(t) ==
    /\ pc[t] = "locked"
    /\ op[t].kind = "mark_cancelled"
    /\ state' = "CANCELLED"
    /\ stateLog' = Append(stateLog, "CANCELLED")
    /\ result' = [result EXCEPT ![t] = "ok"]
    /\ pc' = [pc EXCEPT ![t] = "record"]
    /\ UNCHANGED <<sqlite_path, lock, jobStatus, jobEvents, statusLog, op,
                   calls>>

\* JobStateMachine._record, first half: early return or upsert_job_status
upsert_job_status(t) ==
    /\ pc[t] = "record"
    /\ IF ~sqlite_path
         THEN /\ pc' = [pc EXCEPT ![t] = "release"]
              /\ UNCHANGED <<jobStatus, statusLog>>
         ELSE /\ jobStatus' = op[t].target
              /\ statusLog' = Append(statusLog, op[t].target)
              /\ pc' = [pc EXCEPT ![t] = "event"]
    /\ UNCHANGED <<state, sqlite_path, lock, jobEvents, stateLog, op, result,
                   calls>>

\* JobStateMachine._record, second half: record_job_event
record_job_event(t) ==
    /\ pc[t] = "event"
    /\ jobEvents' = Append(jobEvents, op[t].target)
    /\ pc' = [pc EXCEPT ![t] = "release"]
    /\ UNCHANGED <<state, sqlite_path, lock, jobStatus, stateLog, statusLog,
                   op, result, calls>>

\* `with self._lock:` exit (normal return or raise)
release(t) ==
    /\ pc[t] = "release"
    /\ lock' = NoThread
    /\ pc' = [pc EXCEPT ![t] = "idle"]
    /\ UNCHANGED <<state, sqlite_path, jobStatus, jobEvents, stateLog,
                   statusLog, op, result, calls>>

JobNext ==
    \/ \E t \in Threads, target \in JobState : call(t, "transition", target)
    \/ \E t \in Threads : call(t, "mark_failed", "FAILED")
    \/ \E t \in Threads : call(t, "mark_cancelled", "CANCELLED")
    \/ \E t \in Threads : acquire(t)
    \/ \E t \in Threads : transition(t)
    \/ \E t \in Threads : mark_failed(t)
    \/ \E t \in Threads : mark_cancelled(t)
    \/ \E t \in Threads : upsert_job_status(t)
    \/ \E t \in Threads : record_job_event(t)
    \/ \E t \in Threads : release(t)

(***************************************************************************)
(* Part 2: schema writers, SpillBuffer, CheckpointStore and                *)
(* MaterializationJobRunner._process_schema                                *)
(* (core/materialization/runner.py)                                        *)
(*                                                                         *)
(* A source row is identified by its (file, line) pair; the row pushed     *)
(* for it is the NormalizedRow [values, observed_length] whose values      *)
(* stand for the cells of that line.  Blocks carry an empty header_sample, *)
(* so iter_block_rows yields every line start_line..end_line.              *)
(***************************************************************************)
VARIABLES
    blocks,             \* the FileBlocks of the schema
    fmt,                \* MaterializationJobRunner.writer_format
    chunk_rows,         \* MaterializationJobRunner.chunk_rows
    threshold,          \* SpillBuffer.threshold
    checkpoint,         \* CheckpointStore entry of the schema: <<>> or <<snapshot>>
    wr,                 \* the schema writer and the storage it writes to
    buffer,             \* SpillBuffer.buffer
    telemetry,          \* SpillBuffer.telemetry
    spool,              \* spill files present in the spool directory
    seen_lines,         \* _process_schema: local dedup set
    global_seen_lines,  \* run: dedup set shared by the schema jobs
    rpc,                \* position of the runner in _process_schema
    idx,                \* index of the current block
    pos,                \* next line of the current block
    crashes,            \* number of interruptions so far
    pushed,             \* history: rows pushed to the spill buffer, in order
    startCkpt,          \* history: checkpoint entry the current run loaded
    rows_written        \* JobSummary.rows_written of the finished run

runVars == <<blocks, fmt, chunk_rows, threshold, checkpoint, wr, buffer,
             telemetry, spool, seen_lines, global_seen_lines, rpc, idx, pos,
             crashes, pushed, startCkpt, rows_written>>

Formats == {"csv", "parquet", "database"}

Range(s) == {s[i] : i \in 1..Len(s)}

SetFile(f, c, v) == [k \in DOMAIN f \cup {c} |-> IF k = c THEN v ELSE f[k]]

\* storage before any run: no chunk file, empty table
EmptyWriter ==
    [chunk_index |-> 0, rows_in_chunk |-> 0, total_rows |-> 0,
     output_files |-> <<>>, handle |-> FALSE, open_chunk |-> -1,
     pqBuffer |-> <<>>, txn |-> <<>>, row_index |-> 0, written |-> <<>>,
     files |-> <<>>, finalized |-> {}, table |-> <<>>]

\* ParquetSchemaWriter._flush_buffer
flush_buffer(W) ==
    IF W.pqBuffer = <<>> \/ ~W.handle THEN W
    ELSE [W EXCEPT !.files = [@ EXCEPT ![W.open_chunk] = @ \o W.pqBuffer],
                   !.pqBuffer = <<>>]

\* BaseSchemaWriter.close with the _before_close of the format
writer_close(W) ==
    CASE fmt = "parquet" ->
           LET F == flush_buffer(W)
           IN  IF F.handle
                 THEN [F EXCEPT !.handle = FALSE,
                                !.finalized = @ \cup {F.open_chunk},
                                !.open_chunk = -1]
                 ELSE [F EXCEPT !.open_chunk = -1]
      [] fmt = "database" ->
           IF W.handle
             THEN [W EXCEPT !.table = @ \o W.txn, !.txn = <<>>,
                            !.handle = FALSE, !.open_chunk = -1]
             ELSE W
      [] OTHER -> [W EXCEPT !.handle = FALSE, !.open_chunk = -1]

\* _open_stream / _after_open of the format; c is the chunk of the path
open_stream(W, c, append) ==
    CASE fmt = "parquet" ->
           [W EXCEPT !.files = SetFile(W.files, c, <<>>),
                     !.finalized = @ \ {c},
                     !.pqBuffer = <<>>, !.handle = TRUE, !.open_chunk = c]
      [] fmt = "database" ->
           [W EXCEPT !.txn = <<>>, !.handle = TRUE, !.open_chunk = c,
                     !.row_index = W.rows_in_chunk]
      [] OTHER ->
           [W EXCEPT !.files = IF append /\ c \in DOMAIN W.files
                                 THEN W.files
                                 ELSE SetFile(W.files, c, <<>>),
                     !.handle = TRUE, !.open_chunk = c]

\* `if path.as_posix() not in self.output_files: append`
add_output_file(W, c) ==
    IF c \in Range(W.output_files) THEN W
    ELSE [W EXCEPT !.output_files = Append(@, c)]

\* BaseSchemaWriter._start_new_chunk
start_new_chunk(W) ==
    LET A == writer_close(W)
        B == open_stream(A, A.chunk_index, FALSE)
    IN  [add_output_file(B, B.chunk_index) EXCEPT !.rows_in_chunk = 0]

\* BaseSchemaWriter._open_current(append=True)
open_current(W) ==
    add_output_file(open_stream(W, W.chunk_index, TRUE), W.chunk_index)

\* ParquetSchemaWriter.__init__: a resumed non-empty chunk is not reopened
resume_checkpoint(ckpt) ==
    IF fmt = "parquet" /\ ckpt # <<>> /\ ckpt[1].rows_in_chunk # 0
      THEN <<[ckpt[1] EXCEPT !.chunk_index = @ + 1, !.rows_in_chunk = 0]>>
      ELSE ckpt

\* BaseSchemaWriter.__init__ over the storage left in W
writer_init(ckpt, W) ==
    LET c == resume_checkpoint(ckpt)
        base == [EmptyWriter EXCEPT
                   !.chunk_index = IF c # <<>> THEN c[1].chunk_index ELSE 0,
                   !.rows_in_chunk = IF c # <<>> THEN c[1].rows_in_chunk ELSE 0,
                   !.total_rows = IF c # <<>> THEN c[1].total_rows ELSE 0,
                   !.output_files = IF c # <<>> THEN c[1].output_files ELSE <<>>,
                   !.files = W.files, !.finalized = W.finalized,
                   !.table = W.table]
    IN  IF base.rows_in_chunk > 0 THEN open_current(base)
        ELSE start_new_chunk(base)

\* _write_row of the format
write_row(W, values) ==
    CASE fmt = "parquet" ->
           LET B == [W EXCEPT !.pqBuffer = Append(@, values)]
           IN  IF Len(B.pqBuffer) >= FLUSH_ROWS THEN flush_buffer(B) ELSE B
      [] fmt = "database" ->
           [W EXCEPT !.txn = Append(@, <<W.chunk_index, W.row_index, values>>),
                     !.row_index = @ + 1]
      [] OTHER ->
           [W EXCEPT !.files = [@ EXCEPT ![W.open_chunk] = Append(@, values)]]

\* BaseSchemaWriter.write
writer_write(W, row) ==
    LET R == IF W.rows_in_chunk >= chunk_rows
               THEN start_new_chunk([W EXCEPT !.chunk_index = @ + 1])
               ELSE W
        S == write_row(R, row.values)
    IN  [S EXCEPT !.rows_in_chunk = @ + 1, !.total_rows = @ + 1,
                  !.written = Append(@, row)]

\* `for row in rows: self.writer.write(row.values, observed_length=...)`
RECURSIVE write_all(_, _)
write_all(W, rows) ==
    IF rows = <<>> THEN W
    ELSE write_all(writer_write(W, Head(rows)), Tail(rows))

\* BaseSchemaWriter.snapshot
snapshot(W, next_block) ==
    [next_block |-> next_block, chunk_index |-> W.chunk_index,
     rows_in_chunk |-> W.rows_in_chunk, total_rows |-> W.total_rows,
     output_files |-> W.output_files]

\* what is left of the writer when the run is interrupted: a CSV handle is
\* flushed by its finalizer, buffered Parquet rows and the open database
\* transaction are lost, the open Parquet file gets its footer or not
crash_writer(W, footer) ==
    [EmptyWriter EXCEPT
       !.files = W.files,
       !.finalized = IF fmt = "parquet" /\ W.handle /\ footer
                       THEN W.finalized \cup {W.open_chunk} ELSE W.finalized,
       !.table = W.table]

(***************************************************************************)
(* SpillBuffer                                                             *)
(***************************************************************************)
\* json.dumps({"values": ..., "observed_length": ...}): one line of the file
spill_encode(row) ==
    [kind |-> "dict", values |-> row.values,
     observed_length |-> row.observed_length]

\* json.loads of one line and the dict / list branches of _drain_spill
spill_decode(data) ==
    IF data.kind = "dict"
      THEN [values |-> data.values, observed_length |-> data.observed_length]
      ELSE [values |-> data.values, observed_length |-> Len(data.values)]

NoTelemetry == [spills |-> 0, rows_spilled |-> 0, max_buffer_rows |-> 0]

Max(a, b) == IF a >= b THEN a ELSE b

\* SpillBuffer._drain_spill: feed the writer line by line, unlink the file;
\* the file is the last one of sp
drain_spill(b, W, sp, tel) ==
    LET file == sp[Len(sp)]
        rows == [i \in 1..Len(file) |-> spill_decode(file[i])]
    IN  [buffer |-> b, wr |-> write_all(W, rows),
         spool |-> SubSeq(sp, 1, Len(sp) - 1), telemetry |-> tel]

spill_keep_buffer(b, W, sp, tel) ==
    LET file == [i \in 1..Len(b) |-> spill_encode(b[i])]
    IN  drain_spill(b, W, Append(sp, file),
                    [tel EXCEPT !.spills = @ + 1,
                                !.rows_spilled = @ + Len(b)])

\* SpillBuffer._spill
spill(b, W, sp, tel) ==
    LET file == [i \in 1..Len(b) |-> spill_encode(b[i])]
    IN  drain_spill(<<>>, W, Append(sp, file),
                    [tel EXCEPT !.spills = @ + 1,
                                !.rows_spilled = @ + Len(b)])

\* SpillBuffer.push
spill_push(row, b, W, sp, tel) ==
    LET b1 == Append(b, row)
        t1 == [tel EXCEPT !.max_buffer_rows = Max(@, Len(b1))]
    IN  IF Len(b1) >= threshold THEN spill(b1, W, sp, t1)
        ELSE [buffer |-> b1, wr |-> W, spool |-> sp, telemetry |-> t1]

\* SpillBuffer.flush (close is flush)
spill_flush(b, W, sp, tel) ==
    IF b = <<>> THEN [buffer |-> b, wr |-> W, spool |-> sp, telemetry |-> tel]
    ELSE [buffer |-> <<>>, wr |-> write_all(W, b), spool |-> sp,
          telemetry |-> tel]

(***************************************************************************)
(* MaterializationJobRunner._process_schema, one schema, with              *)
(* interruption and restart on the same checkpoint file and destination    *)
(***************************************************************************)
Files == 1..NumFiles

Lines == 0..MaxLine

FileBlock == [file_path : Files, start_line : Lines, end_line : Lines]

ValidBlocks == {b \in FileBlock : b.start_line <= b.end_line}

BlockLists == UNION {[1..n -> ValidBlocks] : n \in 1..MaxBlocks}

\* sort key (str(b.file_path), b.start_line)
KeyLess(a, b) ==
    \/ a.file_path < b.file_path
    \/ a.file_path = b.file_path /\ a.start_line < b.start_line

\* insert b after the last element whose key is not greater (stable)
RECURSIVE InsertBlock(_, _)
InsertBlock(sorted, b) ==
    IF sorted = <<>> THEN <<b>>
    ELSE IF KeyLess(b, Last(sorted))
           THEN Append(InsertBlock(SubSeq(sorted, 1, Len(sorted) - 1), b),
                       Last(sorted))
           ELSE Append(sorted, b)

\* blocks.sort(key=lambda b: (str(b.file_path), b.start_line))
RECURSIVE sort_blocks(_)
sort_blocks(bs) ==
    IF bs = <<>> THEN <<>>
    ELSE InsertBlock(sort_blocks(SubSeq(bs, 1, Len(bs) - 1)), Last(bs))

\* the NormalizedRow pushed for source line (f, l)
RowOf(f, l) == [values |-> <<f, l>>, observed_length |-> 2]

\* checkpoint.get("next_block", 0) if checkpoint else 0
start_block_zero(ckpt) == 0

start_block(ckpt) == IF ckpt # <<>> THEN ckpt[1].next_block ELSE 0

is_seen_never(key, seen, global_seen) == FALSE

\* `key in seen_lines` or `key in global_seen_lines`
is_seen(key, seen, global_seen) == key \in seen \/ key \in global_seen

RunInit ==
    /\ blocks \in BlockLists
    /\ fmt \in Formats
    /\ chunk_rows \in 1..MaxChunkRows
    /\ threshold \in 1..MaxThreshold
    /\ checkpoint = <<>>
    /\ wr = EmptyWriter
    /\ buffer = <<>>
    /\ telemetry = NoTelemetry
    /\ spool = <<>>
    /\ seen_lines = {}
    /\ global_seen_lines = {}
    /\ rpc = "init"
    /\ idx = 0
    /\ pos = 0
    /\ crashes = 0
    /\ pushed = <<>>
    /\ startCkpt = <<>>
    /\ rows_written = -1

RunIdle ==
    /\ blocks = <<>>
    /\ fmt = "csv"
    /\ chunk_rows = 1
    /\ threshold = 1
    /\ checkpoint = <<>>
    /\ wr = EmptyWriter
    /\ buffer = <<>>
    /\ telemetry = NoTelemetry
    /\ spool = <<>>
    /\ seen_lines = {}
    /\ global_seen_lines = {}
    /\ rpc = "idle"
    /\ idx = 0
    /\ pos = 0
    /\ crashes = 0
    /\ pushed = <<>>
    /\ startCkpt = <<>>
    /\ rows_written = -1

\* run + _process_schema up to the block loop: fresh dedup sets, sort,
\* checkpoint lookup, writer, spill buffer
process_schema_start ==
    /\ rpc = "init"
    /\ blocks' = sort_blocks(blocks)
    /\ startCkpt' = checkpoint
    /\ wr' = writer_init(checkpoint, wr)
    /\ buffer' = <<>>
    /\ telemetry' = NoTelemetry
    /\ seen_lines' = {}
    /\ global_seen_lines' = {}
    /\ pushed' = <<>>
    /\ idx' = 0
    /\ pos' = 0
    /\ rpc' = "block"
    /\ UNCHANGED <<fmt, chunk_rows, threshold, checkpoint, spool, crashes,
                   rows_written>>

\* head of `for idx, block in enumerate(blocks)`
next_block ==
    /\ rpc = "block"
    /\ IF idx >= Len(blocks)
         THEN /\ rpc' = "close"
              /\ UNCHANGED <<idx, pos>>
         ELSE IF idx < start_block(startCkpt)
         THEN /\ idx' = idx + 1
              /\ UNCHANGED <<rpc, pos>>
         ELSE /\ pos' = blocks[idx + 1].start_line
              /\ rpc' = "row"
              /\ UNCHANGED idx
    /\ UNCHANGED <<blocks, fmt, chunk_rows, threshold, checkpoint, wr, buffer,
                   telemetry, spool, seen_lines, global_seen_lines, crashes,
                   pushed, startCkpt, rows_written>>

\* one iteration of `for line_number, row in iter_block_rows(block, ...)`
process_row ==
    /\ rpc = "row"
    /\ LET block == blocks[idx + 1]
           key == <<block.file_path, pos>>
       IN  IF pos > block.end_line
             THEN /\ rpc' = "flush"
                  /\ UNCHANGED <<pos, seen_lines, global_seen_lines, buffer,
                                 wr, spool, telemetry, pushed>>
             ELSE IF is_seen(key, seen_lines, global_seen_lines)
             THEN /\ pos' = pos + 1
                  /\ UNCHANGED <<rpc, seen_lines, global_seen_lines, buffer,
                                 wr, spool, telemetry, pushed>>
             ELSE LET r == spill_push(RowOf(block.file_path, pos), buffer, wr,
                                      spool, telemetry)
                  IN  /\ seen_lines' = seen_lines \cup {key}
                      /\ global_seen_lines' = global_seen_lines \cup {key}
                      /\ buffer' = r.buffer
                      /\ wr' = r.wr
                      /\ spool' = r.spool
                      /\ telemetry' = r.telemetry
                      /\ pushed' = Append(pushed, RowOf(block.file_path, pos))
                      /\ pos' = pos + 1
                      /\ UNCHANGED rpc
    /\ UNCHANGED <<blocks, fmt, chunk_rows, threshold, checkpoint, idx,
                   crashes, startCkpt, rows_written>>

\* `spooler.flush()` at the end of a block
block_flush ==
    /\ rpc = "flush"
    /\ LET r == spill_flush(buffer, wr, spool, telemetry)
       IN  /\ buffer' = r.buffer
           /\ wr' = r.wr
    /\ rpc' = "checkpoint"
    /\ UNCHANGED <<blocks, fmt, chunk_rows, threshold, checkpoint, telemetry,
                   spool, seen_lines, global_seen_lines, idx, pos, crashes,
                   pushed, startCkpt, rows_written>>

\* `self.checkpoints.update(schema_id, writer.snapshot(next_block=idx + 1))`
checkpoint_update ==
    /\ rpc = "checkpoint"
    /\ checkpoint' = <<snapshot(wr, idx + 1)>>
    /\ idx' = idx + 1
    /\ rpc' = "block"
    /\ UNCHANGED <<blocks, fmt, chunk_rows, threshold, wr, buffer, telemetry,
                   spool, seen_lines, global_seen_lines, pos, crashes, pushed,
                   startCkpt, rows_written>>

\* `spooler.close(); writer.close(); rows = writer.total_rows`
process_schema_close ==
    /\ rpc = "close"
    /\ LET r == spill_flush(buffer, wr, spool, telemetry)
       IN  /\ buffer' = r.buffer
           /\ wr' = writer_close(r.wr)
           /\ rows_written' = r.wr.total_rows
    /\ rpc' = "clear"
    /\ UNCHANGED <<blocks, fmt, chunk_rows, threshold, checkpoint, telemetry,
                   spool, seen_lines, global_seen_lines, idx, pos, crashes,
                   pushed, startCkpt>>

\* CheckpointStore.clear, then the summary is returned
checkpoint_clear ==
    /\ rpc = "clear"
    /\ checkpoint' = <<>>
    /\ rpc' = "done"
    /\ UNCHANGED <<blocks, fmt, chunk_rows, threshold, wr, buffer, telemetry,
                   spool, seen_lines, global_seen_lines, idx, pos, crashes,
                   pushed, startCkpt, rows_written>>

\* the run is interrupted between two steps and started again with the
\* same mapping, destination directory and checkpoint file
interrupt ==
    /\ rpc \in {"block", "row", "flush", "checkpoint", "close", "clear"}
    /\ crashes < MaxCrashes
    /\ crashes' = crashes + 1
    /\ \E footer \in BOOLEAN :
         /\ (fmt = "parquet" /\ wr.handle) \/ ~footer
         /\ wr' = crash_writer(wr, footer)
    /\ buffer' = <<>>
    /\ rpc' = "init"
    /\ UNCHANGED <<blocks, fmt, chunk_rows, threshold, checkpoint, telemetry,
                   spool, seen_lines, global_seen_lines, idx, pos, pushed,
                   startCkpt, rows_written>>

\* the process is killed inside CheckpointStore._persist, which rewrites the
\* checkpoint file in place (open(path, "w"), json.dump): the file is left
\* empty or cut, and the _load of the restarted run turns it into {}
interrupt_persist ==
    /\ \/ rpc = "checkpoint"
       \/ rpc = "clear" /\ checkpoint # <<>>
    /\ crashes < MaxCrashes
    /\ crashes' = crashes + 1
    /\ checkpoint' = <<>>
    /\ \E footer \in BOOLEAN :
         /\ (fmt = "parquet" /\ wr.handle) \/ ~footer
         /\ wr' = crash_writer(wr, footer)
    /\ buffer' = <<>>
    /\ rpc' = "init"
    /\ UNCHANGED <<blocks, fmt, chunk_rows, threshold, telemetry, spool,
                   seen_lines, global_seen_lines, idx, pos, pushed, startCkpt,
                   rows_written>>

RunNext ==
    \/ process_schema_start
    \/ next_block
    \/ process_row
    \/ block_flush
    \/ checkpoint_update
    \/ process_schema_close
    \/ checkpoint_clear
    \/ interrupt
    \/ interrupt_persist

(***************************************************************************)
(* SpillBuffer on its own: any sequence of push and flush calls, then      *)
(* close, over a freshly built writer                                      *)
(***************************************************************************)
SpillRows ==
    {[values |-> <<1, l>>, observed_length |-> n] : l \in 0..1, n \in 1..2}

SpillInit ==
    /\ blocks = <<>>
    /\ fmt \in Formats
    /\ chunk_rows \in 1..MaxChunkRows
    /\ threshold \in 1..MaxThreshold
    /\ checkpoint = <<>>
    /\ wr = writer_init(<<>>, EmptyWriter)
    /\ buffer = <<>>
    /\ telemetry = NoTelemetry
    /\ spool = <<>>
    /\ seen_lines = {}
    /\ global_seen_lines = {}
    /\ rpc = "spill"
    /\ idx = 0
    /\ pos = 0
    /\ crashes = 0
    /\ pushed = <<>>
    /\ startCkpt = <<>>
    /\ rows_written = -1

\* SpillBuffer.push(row)
sb_push(row) ==
    /\ rpc = "spill"
    /\ Len(pushed) < MaxPushes
    /\ LET r == spill_push(row, buffer, wr, spool, telemetry)
       IN  /\ buffer' = r.buffer
           /\ wr' = r.wr
           /\ spool' = r.spool
           /\ telemetry' = r.telemetry
    /\ pushed' = Append(pushed, row)
    /\ UNCHANGED <<blocks, fmt, chunk_rows, threshold, checkpoint, seen_lines,
                   global_seen_lines, rpc, idx, pos, crashes, startCkpt,
                   rows_written>>

\* SpillBuffer.flush()
sb_flush ==
    /\ rpc = "spill"
    /\ LET r == spill_flush(buffer, wr, spool, telemetry)
       IN  /\ buffer' = r.buffer
           /\ wr' = r.wr
    /\ UNCHANGED <<blocks, fmt, chunk_rows, threshold, checkpoint, telemetry,
                   spool, seen_lines, global_seen_lines, rpc, idx, pos,
                   crashes, pushed, startCkpt, rows_written>>

\* SpillBuffer.close()
sb_close ==
    /\ rpc = "spill"
    /\ LET r == spill_flush(buffer, wr, spool, telemetry)
       IN  /\ buffer' = r.buffer
           /\ wr' = r.wr
    /\ rpc' = "closed"
    /\ UNCHANGED <<blocks, fmt, chunk_rows, threshold, checkpoint, telemetry,
                   spool, seen_lines, global_seen_lines, idx, pos, crashes,
                   pushed, startCkpt, rows_written>>

SpillNext ==
    \/ \E row \in SpillRows : sb_push(row)
    \/ sb_flush
    \/ sb_close

(***************************************************************************)
(* Part 3: MaterializationJobRunner.run with two schema jobs in worker     *)
(* threads that share global_seen_lines.  Every job has one block of the   *)
(* same file; a set operation is one atomic step of its thread.            *)
(***************************************************************************)
VARIABLES
    jobBlock,   \* the block of every schema job
    ppc,        \* position of every schema job in the row loop
    ppos,       \* next line of every schema job
    localSeen,  \* seen_lines of every schema job
    emitted     \* rows every schema job pushed to its spill buffer

parVars == <<jobBlock, ppc, ppos, localSeen, emitted>>

runOwnVars == <<blocks, fmt, chunk_rows, threshold, checkpoint, wr, buffer,
                telemetry, spool, seen_lines, rpc, idx, pos, crashes, pushed,
                startCkpt, rows_written>>

SchemaJobs == {"s1", "s2"}

ParInit ==
    /\ jobBlock \in [SchemaJobs -> {b \in ValidBlocks : b.file_path = 1}]
    /\ ppc = [w \in SchemaJobs |-> "check"]
    /\ ppos = [w \in SchemaJobs |-> jobBlock[w].start_line]
    /\ localSeen = [w \in SchemaJobs |-> {}]
    /\ emitted = [w \in SchemaJobs |-> <<>>]

ParIdle ==
    /\ jobBlock = [w \in SchemaJobs |-> [file_path |-> 1, start_line |-> 0,
                                         end_line |-> 0]]
    /\ ppc = [w \in SchemaJobs |-> "idle"]
    /\ ppos = [w \in SchemaJobs |-> 0]
    /\ localSeen = [w \in SchemaJobs |-> {}]
    /\ emitted = [w \in SchemaJobs |-> <<>>]

\* the two membership tests of the row loop
job_check(w) ==
    /\ ppc[w] = "check"
    /\ LET key == <<jobBlock[w].file_path, ppos[w]>>
       IN  IF ppos[w] > jobBlock[w].end_line
             THEN /\ ppc' = [ppc EXCEPT ![w] = "done"]
                  /\ UNCHANGED ppos
             ELSE IF is_seen(key, localSeen[w], global_seen_lines)
             THEN /\ ppos' = [ppos EXCEPT ![w] = @ + 1]
                  /\ UNCHANGED ppc
             ELSE /\ ppc' = [ppc EXCEPT ![w] = "add"]
                  /\ UNCHANGED ppos
    /\ UNCHANGED <<jobBlock, localSeen, emitted, global_seen_lines>>

\* seen_lines.add(key); global_seen_lines.add(key); spooler.push(row)
job_add(w) ==
    /\ ppc[w] = "add"
    /\ LET key == <<jobBlock[w].file_path, ppos[w]>>
       IN  /\ localSeen' = [localSeen EXCEPT ![w] = @ \cup {key}]
           /\ global_seen_lines' = global_seen_lines \cup {key}
           /\ emitted' = [emitted EXCEPT ![w] = Append(@, key)]
    /\ ppos' = [ppos EXCEPT ![w] = @ + 1]
    /\ ppc' = [ppc EXCEPT ![w] = "check"]
    /\ UNCHANGED jobBlock

ParNext ==
    \/ \E w \in SchemaJobs : job_check(w)
    \/ \E w \in SchemaJobs : job_add(w)

(***************************************************************************)
(* Part 4: ResourceManager and ResourceLease (core/resources/manager.py)   *)
(* An optional limit is <<>> (None) or <<n>>.                              *)
(***************************************************************************)
VARIABLES
    limits,   \* ResourceManager.limits: memory_mb, spill_mb, max_workers
    in_use,   \* _memory_in_use, _disk_in_use, _workers_in_use
    resLock,  \* holder of ResourceManager._lock, or NoThread
    leases,   \* the ResourceLeases handed out, with their _released flag
    rth,      \* every caller thread: position, request, lease
    resResult,  \* how the call that ended last ended
    ask,      \* the arguments the callers pass to reserve
    resOps    \* number of reserve and release calls started

resVars == <<limits, in_use, resLock, leases, rth, resResult, ask, resOps>>

OptionalLimit == {<<>>} \cup {<<n>> : n \in 1..MaxLimit}

Amounts == [memory_mb : 0..MaxRequest, disk_mb : 0..MaxRequest,
            workers : 0..MaxRequest]

\* max(0, int(x)) of the three arguments of reserve
clamp_request(m, d, w) ==
    [memory_mb |-> Max(0, m), disk_mb |-> Max(0, d), workers |-> Max(0, w)]

ensure_capacity_no_workers(lim, use, req) ==
    /\ lim.memory_mb # <<>> => use.memory_mb + req.memory_mb <= lim.memory_mb[1]
    /\ lim.spill_mb # <<>> => use.disk_mb + req.disk_mb <= lim.spill_mb[1]

\* ResourceManager._ensure_capacity: TRUE iff no ResourceLimitError is raised
ensure_capacity(lim, use, req) ==
    /\ lim.memory_mb # <<>> => use.memory_mb + req.memory_mb <= lim.memory_mb[1]
    /\ lim.spill_mb # <<>> => use.disk_mb + req.disk_mb <= lim.spill_mb[1]
    /\ lim.max_workers # <<>> => use.workers + req.workers <= lim.max_workers[1]

reserve_counters_check_as_you_go(lim, use, req) ==
    IF lim.memory_mb # <<>> /\ use.memory_mb + req.memory_mb > lim.memory_mb[1]
      THEN use
    ELSE IF lim.spill_mb # <<>> /\ use.disk_mb + req.disk_mb > lim.spill_mb[1]
      THEN [use EXCEPT !.memory_mb = @ + req.memory_mb]
    ELSE IF lim.max_workers # <<>> /\ use.workers + req.workers > lim.max_workers[1]
      THEN [use EXCEPT !.memory_mb = @ + req.memory_mb,
                       !.disk_mb = @ + req.disk_mb]
    ELSE [memory_mb |-> use.memory_mb + req.memory_mb,
          disk_mb |-> use.disk_mb + req.disk_mb,
          workers |-> use.workers + req.workers]

\* the counters after the locked body of reserve: all checks, then all adds
reserve_counters(lim, use, req) ==
    IF ensure_capacity(lim, use, req)
      THEN [memory_mb |-> use.memory_mb + req.memory_mb,
            disk_mb |-> use.disk_mb + req.disk_mb,
            workers |-> use.workers + req.workers]
      ELSE use

\* ResourceManager._release: clamped subtraction
release_counters(use, amt) ==
    [memory_mb |-> Max(0, use.memory_mb - amt.memory_mb),
     disk_mb |-> Max(0, use.disk_mb - amt.disk_mb),
     workers |-> Max(0, use.workers - amt.workers)]

NoAmounts == [memory_mb |-> 0, disk_mb |-> 0, workers |-> 0]

IdleThread == [pc |-> "idle", req |-> NoAmounts, lease |-> 0]

\* ResourceManager.__init__ with limits as the configuration loader accepts
ResInit ==
    /\ limits \in [memory_mb : OptionalLimit, spill_mb : OptionalLimit,
                   max_workers : OptionalLimit]
    /\ in_use = NoAmounts
    /\ resLock = NoThread
    /\ leases = <<>>
    /\ rth = [t \in Threads |-> IdleThread]
    /\ resResult = "none"
    /\ ask \in [memory_mb : -1..MaxRequest, disk_mb : -1..MaxRequest,
                 workers : -1..MaxRequest]
    /\ resOps = 0

ResIdle ==
    /\ limits = [memory_mb |-> <<>>, spill_mb |-> <<>>, max_workers |-> <<>>]
    /\ in_use = NoAmounts
    /\ resLock = NoThread
    /\ leases = <<>>
    /\ rth = [t \in Threads |-> IdleThread]
    /\ resResult = "none"
    /\ ask = NoAmounts
    /\ resOps = 0

\* reserve(memory_mb, disk_mb, workers) up to `with self._lock:`: the
\* arguments are clamped
reserve_call(t) ==
    /\ rth[t].pc = "idle"
    /\ resOps < MaxResOps
    /\ resOps' = resOps + 1
    /\ rth' = [rth EXCEPT ![t] =
                  [pc |-> "reserve_lock",
                   req |-> clamp_request(ask.memory_mb, ask.disk_mb,
                                         ask.workers),
                   lease |-> 0]]
    /\ resResult' = "none"
    /\ UNCHANGED <<limits, in_use, resLock, leases, ask>>

\* the locked body of reserve, from the acquisition of the lock to its
\* release: the lease is returned or ResourceLimitError raised
reserve(t) ==
    /\ rth[t].pc = "reserve_lock"
    /\ lock_free(resLock)
    /\ in_use' = reserve_counters(limits, in_use, rth[t].req)
    /\ IF ensure_capacity(limits, in_use, rth[t].req)
         THEN /\ leases' = Append(leases, [amounts |-> rth[t].req,
                                           released |-> FALSE])
              /\ rth' = [rth EXCEPT ![t] = IdleThread]
              /\ resResult' = "lease"
         ELSE /\ leases' = leases
              /\ rth' = [rth EXCEPT ![t] = IdleThread]
              /\ resResult' = "error"
    /\ UNCHANGED <<limits, resLock, ask, resOps>>

\* ResourceLease.release() on lease i: `if self._released: return`
release_call(t, i) ==
    /\ rth[t].pc = "idle"
    /\ i \in DOMAIN leases
    /\ resOps < MaxResOps
    /\ resOps' = resOps + 1
    /\ IF leases[i].released
         THEN rth' = rth /\ resResult' = "noop"
         ELSE /\ rth' = [rth EXCEPT ![t] = [pc |-> "release_lock",
                                            req |-> leases[i].amounts,
                                            lease |-> i]]
              /\ resResult' = resResult
    /\ UNCHANGED <<limits, in_use, resLock, leases, ask>>

\* ResourceManager._release: the locked body, from the acquisition of the
\* lock to its release
release_body(t) ==
    /\ rth[t].pc = "release_lock"
    /\ lock_free(resLock)
    /\ in_use' = release_counters(in_use, rth[t].req)
    /\ rth' = [rth EXCEPT ![t].pc = "release_mark"]
    /\ UNCHANGED <<limits, resLock, leases, resResult, ask, resOps>>

\* `self._released = True`
release_mark(t) ==
    /\ rth[t].pc = "release_mark"
    /\ leases' = [leases EXCEPT ![rth[t].lease].released = TRUE]
    /\ rth' = [rth EXCEPT ![t] = IdleThread]
    /\ resResult' = "released"
    /\ UNCHANGED <<limits, in_use, resLock, ask, resOps>>

ResNext ==
    \/ \E t \in Threads : reserve_call(t)
    \/ \E t \in Threads : reserve(t)
    \/ \E t \in Threads, i \in 1..MaxResOps : release_call(t, i)
    \/ \E t \in Threads : release_body(t)
    \/ \E t \in Threads : release_mark(t)

(***************************************************************************)
(* Part 5: AnalysisEngine.analyze_files (core/analysis/engine.py)          *)
(* A path is a number; a FileAnalysisResult is identified by its file_path.*)
(***************************************************************************)
VARIABLES
    files,        \* the input list, as resolved paths
    failing,      \* the paths whose analyze_file raises an I/O error
    max_workers,  \* max(1, profile.max_parallel_files)
    anPc,         \* "ready", "sequential", "parallel", "returned", "raised"
    task_iter,    \* number of tasks taken from task_iter
    in_flight,    \* indexes of the submitted tasks whose future is pending
    results,      \* results in the order they were appended
    limit,        \* AdaptiveThrottle._limit
    returned,     \* the list analyze_files returned
    progress_events  \* the FileProgress events emitted, by file_path

anVars == <<files, failing, max_workers, anPc, task_iter, in_flight, results,
            limit, returned, progress_events>>

Paths == 1..MaxPaths

InputLists == UNION {[1..n -> Paths] : n \in 1..MaxInputs}

\* order_map = {path.resolve(): idx for idx, path in enumerate(files)}:
\* a later occurrence of a path overwrites the index of an earlier one
order_map(fs) ==
    [p \in Range(fs) |->
        CHOOSE i \in 1..Len(fs) :
            fs[i] = p /\ \A j \in 1..Len(fs) : fs[j] = p => j <= i]

\* one step of a stable sort: x goes behind every element whose key is not
\* greater than its own
StableInsert(sorted, x, key) ==
    LET n == Cardinality({i \in 1..Len(sorted) : key[sorted[i]] <= key[x]})
    IN SubSeq(sorted, 1, n) \o <<x>> \o SubSeq(sorted, n + 1, Len(sorted))

RECURSIVE StableSort(_, _)
StableSort(res, key) ==
    IF res = <<>> THEN <<>>
    ELSE StableInsert(StableSort(SubSeq(res, 1, Len(res) - 1), key),
                      res[Len(res)], key)

\* results.sort(key=lambda item: order_map.get(item.file_path.resolve(), 0)):
\* list.sort is stable, so an element comes after the elements with a
\* smaller key and after the earlier elements with the same key
sort_results(res, fs) ==
    LET key == order_map(fs)
        rank(i) == Cardinality({j \in 1..Len(res) :
                                  \/ key[res[j]] < key[res[i]]
                                  \/ key[res[j]] = key[res[i]] /\ j <= i})
    IN [k \in 1..Len(res) |-> res[CHOOSE i \in 1..Len(res) : rank(i) = k]]

\* the orders in which `for future in done` can visit the set done
Orderings(S) == {s \in [1..Cardinality(S) -> S] : Range(s) = S}

submit_count_one_short(pending, taken, total, lim) ==
    IF lim - 1 - pending < total - taken
      THEN Max(0, lim - 1 - pending) ELSE total - taken

\* tasks submitted by `while len(in_flight) < throttle.limit: submit_task(...)`
submit_count(pending, taken, total, lim) ==
    IF lim - pending < total - taken
      THEN Max(0, lim - pending) ELSE total - taken

\* AdaptiveThrottle.limit
throttle_limit(l, maxw) == Max(1, IF maxw <= l THEN maxw ELSE l)

\* the values _limit can have after k calls of AdaptiveThrottle.report,
\* whose outcome depends on the measured durations
report(l, k, maxw) == {m \in 1..maxw : m - l <= k /\ l - m <= k}

AnInit ==
    /\ files \in InputLists
    /\ failing \in SUBSET Paths
    /\ max_workers \in 1..MaxWorkers
    /\ anPc = "ready"
    /\ task_iter = 0
    /\ in_flight = {}
    /\ results = <<>>
    /\ limit = max_workers
    /\ returned = <<>>
    /\ progress_events = <<>>

AnIdle ==
    /\ files = <<>>
    /\ failing = {}
    /\ max_workers = 1
    /\ anPc = "idle"
    /\ task_iter = 0
    /\ in_flight = {}
    /\ results = <<>>
    /\ limit = 1
    /\ returned = <<>>
    /\ progress_events = <<>>

\* analyze_files up to the first task: the sequential branch, or the pool
\* primed up to the throttle limit
analyze_files(seq) ==
    /\ anPc = "ready"
    /\ seq = (max_workers = 1)
    /\ IF seq
         THEN /\ anPc' = "sequential"
              /\ UNCHANGED <<task_iter, in_flight>>
         ELSE LET n == submit_count(0, 0, Len(files),
                                    throttle_limit(limit, max_workers))
              IN /\ anPc' = "parallel"
                 /\ task_iter' = n
                 /\ in_flight' = 1..n
    /\ UNCHANGED <<files, failing, max_workers, results, limit, returned,
                   progress_events>>

\* one round of `for task in tasks` in the sequential branch; the exception
\* of _worker_entry leaves analyze_files, the last round returns the results
sequential_task ==
    /\ anPc = "sequential"
    /\ task_iter < Len(files)
    /\ task_iter' = task_iter + 1
    /\ IF files[task_iter + 1] \in failing
         THEN /\ anPc' = "raised"
              /\ UNCHANGED <<results, returned, progress_events>>
         ELSE /\ results' = Append(results, files[task_iter + 1])
              /\ progress_events' = Append(progress_events,
                                           files[task_iter + 1])
              /\ IF task_iter + 1 = Len(files)
                   THEN anPc' = "returned" /\ returned' = results'
                   ELSE anPc' = "sequential" /\ returned' = returned
    /\ UNCHANGED <<files, failing, max_workers, in_flight, limit>>

\* the position of the first failed future in the visiting order, or 0
first_failed(order) ==
    IF \E i \in 1..Len(order) : files[order[i]] \in failing
      THEN CHOOSE i \in 1..Len(order) :
               /\ files[order[i]] \in failing
               /\ \A j \in 1..(i - 1) : files[order[j]] \notin failing
      ELSE 0

\* one round of `while in_flight`: wait returns the futures of `order`,
\* each is popped and its result appended (future.result() re-raises the
\* exception of a failed task), the pool is topped up, and when nothing is
\* in flight the results are sorted and returned
wait_round(order) ==
    /\ anPc = "parallel"
    /\ in_flight # {}
    /\ Range(order) \subseteq in_flight
    /\ LET k == first_failed(order) IN
       IF k > 0
         THEN /\ anPc' = "raised"
              /\ in_flight' = in_flight \ {order[i] : i \in 1..k}
              /\ results' = results \o [i \in 1..(k - 1) |-> files[order[i]]]
              /\ progress_events' = progress_events
                    \o [i \in 1..(k - 1) |-> files[order[i]]]
              /\ limit' \in report(limit, k - 1, max_workers)
              /\ UNCHANGED <<task_iter, returned>>
         ELSE /\ results' = results \o [i \in 1..Len(order) |-> files[order[i]]]
              /\ progress_events' = progress_events
                    \o [i \in 1..Len(order) |-> files[order[i]]]
              /\ limit' \in report(limit, Len(order), max_workers)
              /\ LET left == in_flight \ Range(order)
                     n == submit_count(Cardinality(left), task_iter, Len(files),
                                       throttle_limit(limit', max_workers))
                 IN /\ task_iter' = task_iter + n
                    /\ in_flight' = left \cup (task_iter + 1)..(task_iter + n)
                    /\ IF left = {} /\ n = 0
                         THEN /\ anPc' = "returned"
                              /\ returned' = sort_results(results', files)
                         ELSE /\ anPc' = "parallel"
                              /\ returned' = returned
    /\ UNCHANGED <<files, failing, max_workers>>

AnNext ==
    \/ \E seq \in BOOLEAN : analyze_files(seq)
    \/ sequential_task
    \/ \E done \in SUBSET in_flight : \E order \in Orderings(done) :
          done # {} /\ wait_round(order)

(***************************************************************************)
(* Part 6: BlockPlanner.plan (core/analysis/block_planner.py)              *)
(***************************************************************************)
VARIABLES
    total_lines,    \* argument of plan
    block_size,     \* BlockPlanner.block_size
    min_gap_lines,  \* BlockPlanner.min_gap_lines
    indices,        \* the sorted sample indices
    planPos,        \* entries of indices the loop of plan has visited
    seen,           \* the (start, end) keys planned so far
    planned,        \* the list of PlannedBlock
    planPc          \* "ready", "loop", "done"

planVars == <<total_lines, block_size, min_gap_lines, indices, planPos, seen,
              planned, planPc>>

Min(a, b) == IF a <= b THEN a ELSE b

\* sorted(S) of a set of integers
RECURSIVE Sorted(_)
Sorted(S) ==
    IF S = {} THEN <<>>
    ELSE LET m == CHOOSE x \in S : \A y \in S : x <= y
         IN <<m>> \o Sorted(S \ {m})

\* one pass of `for left, right in zip(ordered, ordered[1:])`
bisect_pass(samples, gap) ==
    LET ordered == Sorted(samples)
    IN samples \cup
       {ordered[i] + ((ordered[i + 1] - ordered[i]) \div 2) :
           i \in {j \in 1..(Len(ordered) - 1) :
                     ordered[j + 1] - ordered[j] > gap}}

RECURSIVE bisect_until_stable(_, _)
bisect_until_stable(samples, gap) ==
    LET next == bisect_pass(samples, gap)
    IN IF next = samples THEN samples ELSE bisect_until_stable(next, gap)

\* BlockPlanner._build_sample_indices
build_sample_indices(total, gap) ==
    IF total <= 0 THEN <<>>
    ELSE Sorted(bisect_until_stable({0, Max(0, total - 1)}, Max(1, gap)))

to_block_unclamped(line_index, total, size) ==
    LET half == size \div 2
        start == Max(0, line_index - half)
        end == start + size - 1
    IN <<Max(0, end - size + 1), end>>

\* BlockPlanner._to_block
to_block(line_index, total, size) ==
    LET half == size \div 2
        start == Max(0, line_index - half)
        end == Min(Max(1, total) - 1, start + size - 1)
    IN <<Max(0, end - size + 1), end>>

\* planned.sort(key=lambda block: block.start_line)
sort_planned(blocks_) ==
    StableSort(blocks_, [b \in Range(blocks_) |-> b.start_line])

\* BlockPlanner.__init__ clamps block_size and min_gap_lines to at least 1
PlanInit ==
    /\ total_lines \in 0..MaxTotalLines
    /\ \E b \in 0..MaxBlockSize : block_size = Max(1, b)
    /\ \E g \in 0..MaxGap : min_gap_lines = Max(1, g)
    /\ indices = <<>>
    /\ planPos = 0
    /\ seen = {}
    /\ planned = <<>>
    /\ planPc = "ready"

PlanIdle ==
    /\ total_lines = 0
    /\ block_size = 1
    /\ min_gap_lines = 1
    /\ indices = <<>>
    /\ planPos = 0
    /\ seen = {}
    /\ planned = <<>>
    /\ planPc = "idle"

\* plan: the sample indices are built; an empty list is sorted and returned
plan ==
    /\ planPc = "ready"
    /\ indices' = build_sample_indices(total_lines, min_gap_lines)
    /\ planPc' = IF indices' = <<>> THEN "done" ELSE "loop"
    /\ UNCHANGED <<total_lines, block_size, min_gap_lines, planPos, seen,
                   planned>>

\* one round of `for block_id, idx in enumerate(indices)`; the last round
\* sorts the list and returns it
plan_round ==
    /\ planPc = "loop"
    /\ planPos < Len(indices)
    /\ planPos' = planPos + 1
    /\ LET key == to_block(indices[planPos + 1], total_lines, block_size)
           kept == IF key \in seen THEN planned
                   ELSE Append(planned, [block_id |-> planPos,
                                         start_line |-> key[1],
                                         end_line |-> key[2]])
       IN /\ seen' = seen \cup {key}
          /\ IF planPos + 1 = Len(indices)
               THEN planned' = sort_planned(kept) /\ planPc' = "done"
               ELSE planned' = kept /\ planPc' = "loop"
    /\ UNCHANGED <<total_lines, block_size, min_gap_lines, indices>>

PlanNext ==
    \/ plan
    \/ plan_round

(***************************************************************************)
(* Part 7: a materialization run whose job is cancelled by the controlling *)
(* thread (runner.py _process_schema next to state_machine.py)             *)
(***************************************************************************)
Controller == "t1"

\* the controlling thread asks once for the cancellation of the job
request_cancel ==
    /\ calls = 0
    /\ call(Controller, "mark_cancelled", "CANCELLED")

\* the steps of JobStateMachine.mark_cancelled in the controlling thread
cancel_step ==
    \/ request_cancel
    \/ acquire(Controller)
    \/ mark_cancelled(Controller)
    \/ upsert_job_status(Controller)
    \/ record_job_event(Controller)
    \/ release(Controller)

\* the steps of _process_schema in the worker; it reads no job state
worker_step ==
    \/ process_schema_start
    \/ next_block
    \/ process_row
    \/ block_flush
    \/ checkpoint_update
    \/ process_schema_close
    \/ checkpoint_clear

CancelInit == JobInit /\ RunInit

CancelNext ==
    \/ cancel_step /\ UNCHANGED runVars
    \/ worker_step /\ UNCHANGED jobVars

(***************************************************************************)
(* Part 8: output paths of the schema writers of one run (runner.py)       *)
(* A name is a sequence of characters; "A" is an upper-case letter, "-" a  *)
(* punctuation mark and " " a blank.                                       *)
(***************************************************************************)
VARIABLES
    schemaName,  \* SchemaDefinition.name of every schema of the mapping
    wpc,         \* every schema job: "start", "writing", "closed"
    wchunk,      \* BaseSchemaWriter.chunk_index of every job
    openPath,    \* the chunk path every writer holds open: <<>> or <<path>>
    writtenBy    \* the writers that wrote to a path, as (path, job) pairs

slugVars == <<schemaName, wpc, wchunk, openPath, writtenBy>>

Chars == {"a", "A", "-", " "}

Names == UNION {[1..n -> Chars] : n \in 0..MaxNameLen}

isalnum(ch) == ch \in {"a", "A"}

lower(ch) == IF ch = "A" THEN "a" ELSE ch

\* str.strip(ch)
RECURSIVE strip(_, _)
strip(s, ch) ==
    IF s = <<>> THEN s
    ELSE IF s[1] = ch THEN strip(Tail(s), ch)
    ELSE IF s[Len(s)] = ch THEN strip(SubSeq(s, 1, Len(s) - 1), ch)
    ELSE s

\* `while "__" in slug: slug = slug.replace("__", "_")`
RECURSIVE collapse(_)
collapse(s) ==
    IF Len(s) < 2 THEN s
    ELSE IF s[1] = "_" /\ s[2] = "_" THEN collapse(Tail(s))
    ELSE <<s[1]>> \o collapse(Tail(s))

\* slugify of runner.py
slugify(value) ==
    LET stripped == strip(value, " ")
        safe == [i \in 1..Len(stripped) |->
                    IF isalnum(stripped[i]) THEN lower(stripped[i]) ELSE "_"]
        slug == IF safe = <<>> THEN <<"dataset">> ELSE safe
    IN strip(collapse(slug), "_")

\* BaseSchemaWriter.__init__: slugify(schema.name or f"schema_{schema.id}");
\* the identifier of a schema is a token of its own
writer_slug(name, id) ==
    IF name = <<>> THEN <<"schema", "_", id>> ELSE slugify(name)

\* BaseSchemaWriter._path_for_chunk; all writers of a run share dest_dir and
\* the file extension
path_for_chunk(slug, chunk_index) == [slug |-> slug, chunk |-> chunk_index]

SlugInit ==
    /\ schemaName \in [SchemaJobs -> Names]
    /\ wpc = [w \in SchemaJobs |-> "start"]
    /\ wchunk = [w \in SchemaJobs |-> 0]
    /\ openPath = [w \in SchemaJobs |-> <<>>]
    /\ writtenBy = {}

SlugIdle ==
    /\ schemaName = [w \in SchemaJobs |-> <<>>]
    /\ wpc = [w \in SchemaJobs |-> "idle"]
    /\ wchunk = [w \in SchemaJobs |-> 0]
    /\ openPath = [w \in SchemaJobs |-> <<>>]
    /\ writtenBy = {}

\* the first write of a job: _start_new_chunk opens chunk 0 and writes
writer_first_write(w) ==
    /\ wpc[w] = "start"
    /\ LET path == path_for_chunk(writer_slug(schemaName[w], w), 0)
       IN /\ openPath' = [openPath EXCEPT ![w] = <<path>>]
          /\ writtenBy' = writtenBy \cup {<<path, w>>}
    /\ wpc' = [wpc EXCEPT ![w] = "writing"]
    /\ UNCHANGED <<schemaName, wchunk>>

\* a write into a full chunk: the chunk is closed and the next one opened
writer_next_chunk(w) ==
    /\ wpc[w] = "writing"
    /\ wchunk[w] + 1 < MaxChunks
    /\ wchunk' = [wchunk EXCEPT ![w] = @ + 1]
    /\ LET path == path_for_chunk(writer_slug(schemaName[w], w), wchunk[w] + 1)
       IN /\ openPath' = [openPath EXCEPT ![w] = <<path>>]
          /\ writtenBy' = writtenBy \cup {<<path, w>>}
    /\ UNCHANGED <<schemaName, wpc>>

\* BaseSchemaWriter.close
writer_finish(w) ==
    /\ wpc[w] = "writing"
    /\ openPath' = [openPath EXCEPT ![w] = <<>>]
    /\ wpc' = [wpc EXCEPT ![w] = "closed"]
    /\ UNCHANGED <<schemaName, wchunk, writtenBy>>

SlugNext ==
    \/ \E w \in SchemaJobs : writer_first_write(w)
    \/ \E w \in SchemaJobs : writer_next_chunk(w)
    \/ \E w \in SchemaJobs : writer_finish(w)

(***************************************************************************)
(* Part 9: the checkpoint file (core/jobs/checkpoints.py CheckpointRegistry*)
(* and runner.py CheckpointStore._load / _persist)                         *)
(* The file text is a sequence of tokens; json.dumps(p) is "{" p "}".      *)
(***************************************************************************)
VARIABLES
    ckFile,    \* the checkpoint file: exists, text
    ckLock,    \* holder of CheckpointRegistry._lock, or NoThread
    ckpc,      \* every thread: "idle", "save", "open", "write", "unlock", "load"
    ckArg,     \* the payload every thread is saving
    ckResult,  \* what the last load of every thread returned: <<>> is {}
    ckStored,  \* the last payload written completely: <<>> or <<p>>
    ckNew,     \* the payload of the save that is under way or was cut short
    ckSaves,   \* number of save calls started
    ckCrashes  \* number of process crashes

ckVars == <<ckFile, ckLock, ckpc, ckArg, ckResult, ckStored, ckNew, ckSaves,
            ckCrashes>>

Payloads == {"p1", "p2"}

\* json.dumps(payload)
json_dumps(p) == <<"{", p, "}">>

\* json.loads(text): <<p>> for a complete document, <<"error">> otherwise
json_loads(text) ==
    IF Len(text) = 3 /\ text[1] = "{" /\ text[3] = "}"
      THEN <<text[2]>> ELSE <<"error">>

\* CheckpointRegistry.load: {} for a missing file and for a JSONDecodeError
load_result(file) ==
    IF ~file.exists THEN <<>>
    ELSE IF json_loads(file.text) = <<"error">> THEN <<>>
    ELSE json_loads(file.text)

NoFile == [exists |-> FALSE, text |-> <<>>]

CkInit ==
    /\ ckFile = NoFile
    /\ ckLock = NoThread
    /\ ckpc = [t \in Threads |-> "idle"]
    /\ ckArg = [t \in Threads |-> "p1"]
    /\ ckResult = [t \in Threads |-> <<"none">>]
    /\ ckStored = <<>>
    /\ ckNew = <<>>
    /\ ckSaves = 0
    /\ ckCrashes = 0

CkIdle ==
    /\ ckFile = NoFile
    /\ ckLock = NoThread
    /\ ckpc = [t \in Threads |-> "off"]
    /\ ckArg = [t \in Threads |-> "p1"]
    /\ ckResult = [t \in Threads |-> <<"none">>]
    /\ ckStored = <<>>
    /\ ckNew = <<>>
    /\ ckSaves = 0
    /\ ckCrashes = 0

\* a thread calls save(job_id, phase, payload)
save_call(t, p) ==
    /\ ckpc[t] = "idle"
    /\ ckSaves < MaxSaves
    /\ ckSaves' = ckSaves + 1
    /\ ckArg' = [ckArg EXCEPT ![t] = p]
    /\ ckpc' = [ckpc EXCEPT ![t] = "save"]
    /\ UNCHANGED <<ckFile, ckLock, ckResult, ckStored, ckNew, ckCrashes>>

\* `with self._lock:` in save
save_lock(t) ==
    /\ ckpc[t] = "save"
    /\ lock_free(ckLock)
    /\ ckLock' = t
    /\ ckpc' = [ckpc EXCEPT ![t] = "open"]
    /\ UNCHANGED <<ckFile, ckArg, ckResult, ckStored, ckNew, ckSaves,
                   ckCrashes>>

\* open(path, "w"): the file is created or cut to length zero
open_for_write(file) == [exists |-> TRUE, text |-> <<>>]

\* path.write_text, first half: the file is opened for writing
save_open(t) ==
    /\ ckpc[t] = "open"
    /\ ckFile' = open_for_write(ckFile)
    /\ ckNew' = <<ckArg[t]>>
    /\ ckpc' = [ckpc EXCEPT ![t] = "write"]
    /\ UNCHANGED <<ckLock, ckArg, ckResult, ckStored, ckSaves, ckCrashes>>

\* path.write_text, second half: the next piece of the text reaches the file
save_write(t) ==
    /\ ckpc[t] = "write"
    /\ LET text == json_dumps(ckArg[t])
           n == Len(ckFile.text) + 1
       IN /\ n <= Len(text)
          /\ ckFile' = [ckFile EXCEPT !.text = Append(@, text[n])]
          /\ IF n = Len(text)
               THEN /\ ckStored' = <<ckArg[t]>>
                    /\ ckpc' = [ckpc EXCEPT ![t] = "unlock"]
               ELSE UNCHANGED <<ckStored, ckpc>>
    /\ UNCHANGED <<ckLock, ckArg, ckResult, ckNew, ckSaves, ckCrashes>>

\* end of `with self._lock:` in save
save_unlock(t) ==
    /\ ckpc[t] = "unlock"
    /\ ckLock' = NoThread
    /\ ckpc' = [ckpc EXCEPT ![t] = "idle"]
    /\ UNCHANGED <<ckFile, ckArg, ckResult, ckStored, ckNew, ckSaves,
                   ckCrashes>>

\* a thread calls load(job_id, phase)
load_call(t) ==
    /\ ckpc[t] = "idle"
    /\ ckResult[t] = <<"none">>
    /\ ckpc' = [ckpc EXCEPT ![t] = "load"]
    /\ UNCHANGED <<ckFile, ckLock, ckArg, ckResult, ckStored, ckNew, ckSaves,
                   ckCrashes>>

\* the locked body of load
load(t) ==
    /\ ckpc[t] = "load"
    /\ lock_free(ckLock)
    /\ ckResult' = [ckResult EXCEPT ![t] = load_result(ckFile)]
    /\ ckpc' = [ckpc EXCEPT ![t] = "idle"]
    /\ UNCHANGED <<ckFile, ckLock, ckArg, ckStored, ckNew, ckSaves, ckCrashes>>

\* the process dies; a new process starts with the file as it was left
process_crash ==
    /\ ckCrashes < MaxCrashes
    /\ \E t \in Threads : ckpc[t] # "idle"
    /\ ckCrashes' = ckCrashes + 1
    /\ ckLock' = NoThread
    /\ ckpc' = [t \in Threads |-> "idle"]
    /\ ckResult' = [t \in Threads |-> <<"none">>]
    /\ UNCHANGED <<ckFile, ckArg, ckStored, ckNew, ckSaves>>

CkNext ==
    \/ \E t \in Threads, p \in Payloads : save_call(t, p)
    \/ \E t \in Threads : save_lock(t)
    \/ \E t \in Threads : save_open(t)
    \/ \E t \in Threads : save_write(t)
    \/ \E t \in Threads : save_unlock(t)
    \/ \E t \in Threads : load_call(t)
    \/ \E t \in Threads : load(t)
    \/ process_crash

(***************************************************************************)
(* Part 10: detect_offsets (core/mapping/offset_detection.py)              *)
(* A dict is the sequence of its keys in insertion order and a function.   *)
(***************************************************************************)
VARIABLES
    header_clusters,  \* the argument: canonical_name and variants per cluster
    col_keys,         \* the keys of col_map in insertion order
    col_map,          \* canonical_name -> list of (file_path, column_index)
    mapping_entries,  \* the SchemaMappingEntry list built so far
    offPos,           \* keys of col_map the second loop has visited
    offPc             \* "ready", "resolve", "done"

offVars == <<header_clusters, col_keys, col_map, mapping_entries, offPos,
             offPc>>

CanonicalNames == {"city", "email"}

\* the variants of a cluster: the k-th one was seen in file k, at any column
VariantLists ==
    UNION {{[k \in 1..n |-> [file_path |-> k, column_index |-> cols[k]]] :
               cols \in [1..n -> 0..MaxIndex]} : n \in 0..MaxVariants}

Clusters == [canonical_name : CanonicalNames, variants : VariantLists]

\* the distinct elements of s in the order of their first occurrence
RECURSIVE first_seen(_)
first_seen(s) ==
    IF s = <<>> THEN <<>>
    ELSE LET head == first_seen(SubSeq(s, 1, Len(s) - 1))
         IN IF s[Len(s)] \in Range(head) THEN head
            ELSE Append(head, s[Len(s)])

\* the positions of all clusters named `canonical`, in listing order
RECURSIVE positions_of(_, _)
positions_of(clusters, canonical) ==
    IF clusters = <<>> THEN <<>>
    ELSE (IF clusters[1].canonical_name = canonical
            THEN clusters[1].variants ELSE <<>>)
         \o positions_of(Tail(clusters), canonical)

\* index_counts[idx] after the counting loop
index_count(positions, i) ==
    Cardinality({k \in 1..Len(positions) : positions[k].column_index = i})

target_index_lowest(positions) ==
    LET keys == first_seen([k \in 1..Len(positions) |->
                               positions[k].column_index])
    IN CHOOSE i \in Range(keys) :
         /\ \A m \in Range(keys) :
               index_count(positions, m) <= index_count(positions, i)
         /\ \A m \in Range(keys) :
               index_count(positions, m) = index_count(positions, i) => i <= m

\* max(index_counts, key=index_counts.get): the keys are visited in
\* insertion order and the first one with the greatest count is kept
target_index(positions) ==
    LET keys == first_seen([k \in 1..Len(positions) |->
                               positions[k].column_index])
        j == CHOOSE j \in 1..Len(keys) :
               /\ \A m \in 1..Len(keys) :
                     index_count(positions, keys[m])
                         <= index_count(positions, keys[j])
               /\ \A m \in 1..(j - 1) :
                     index_count(positions, keys[m])
                         < index_count(positions, keys[j])
    IN keys[j]

\* the entries emitted for one canonical name; an offset of zero is stored
\* as None
entries_for(canonical, positions) ==
    LET target == target_index(positions)
    IN [k \in 1..Len(positions) |->
          [file_path |-> positions[k].file_path,
           source_index |-> positions[k].column_index,
           canonical_name |-> canonical,
           target_index |-> target,
           offset_from_index |->
              IF positions[k].column_index - target = 0 THEN <<>>
              ELSE <<positions[k].column_index - target>>]]

OffInit ==
    /\ header_clusters \in UNION {[1..n -> Clusters] : n \in 1..MaxClusters}
    /\ col_keys = <<>>
    /\ col_map = <<>>
    /\ mapping_entries = <<>>
    /\ offPos = 0
    /\ offPc = "ready"

OffIdle ==
    /\ header_clusters = <<>>
    /\ col_keys = <<>>
    /\ col_map = <<>>
    /\ mapping_entries = <<>>
    /\ offPos = 0
    /\ offPc = "idle"

\* the first loop of detect_offsets: col_map gets a key when the first
\* variant of a canonical name is appended
collect_positions ==
    /\ offPc = "ready"
    /\ LET named == SelectSeq(header_clusters, LAMBDA c : c.variants # <<>>)
           keys == first_seen([k \in 1..Len(named) |->
                                  named[k].canonical_name])
       IN /\ col_keys' = keys
          /\ col_map' = [c \in Range(keys) |->
                            positions_of(header_clusters, c)]
          /\ offPc' = IF keys = <<>> THEN "done" ELSE "resolve"
    /\ UNCHANGED <<header_clusters, mapping_entries, offPos>>

\* one round of `for canonical, positions in col_map.items()`
resolve_canonical ==
    /\ offPc = "resolve"
    /\ offPos < Len(col_keys)
    /\ LET canonical == col_keys[offPos + 1]
       IN mapping_entries' =
            mapping_entries \o entries_for(canonical, col_map[canonical])
    /\ offPos' = offPos + 1
    /\ offPc' = IF offPos + 1 = Len(col_keys) THEN "done" ELSE "resolve"
    /\ UNCHANGED <<header_clusters, col_keys, col_map>>

OffNext ==
    \/ collect_positions
    \/ resolve_canonical

(***************************************************************************)
(* Part 11: HeaderClusterizer.build and serialize_header_cluster           *)
(* (core/headers/cluster_builder.py, common/mapping_serialization.py)      *)
(* Every file has one block of one row; result k is the file of path k.    *)
(***************************************************************************)
VARIABLES
    analysis,   \* the analysis results: the raw headers of every file
    clusters,   \* the HeaderCluster list every run built
    artifact,   \* the serialized clusters of every run
    hcPc        \* every run: "ready", "built", "serialized"

hcVars == <<analysis, clusters, artifact, hcPc>>

Runs == {1, 2}

HeaderNames == {"age", "city", "town"}

\* the identifiers uuid4() can return
UUIDs == {"u1", "u2"}

HeaderLists == UNION {[1..n -> HeaderNames] : n \in 1..MaxColumns}

\* the default synonym sets put city and town under the alias city
synonym_alias(slug) == IF slug = "town" THEN "city" ELSE slug

\* str.lower order of the names, as sort compares them
NameRank(name) == CASE name = "age" -> 1 [] name = "city" -> 2 [] OTHER -> 3

\* _accumulate_variants: one variant per (file, column) in input order
RECURSIVE accumulate_variants(_, _)
accumulate_variants(results_, k) ==
    IF k > Len(results_) THEN <<>>
    ELSE [i \in 1..Len(results_[k]) |->
             [file_path |-> k, column_index |-> i - 1,
              raw_name |-> results_[k][i], row_count |-> 1]]
         \o accumulate_variants(results_, k + 1)

\* _build_nodes: the node keys (raw names) in the order they first occur
node_keys(variants) ==
    first_seen([i \in 1..Len(variants) |-> variants[i].raw_name])

\* _link_nodes: nodes with the same alias are joined; for the names above
\* no other rule of _should_link applies. The groups are listed in the
\* order of their first node, each with its node keys in node order.
link_nodes(keys) ==
    LET aliases == first_seen([i \in 1..Len(keys) |-> synonym_alias(keys[i])])
    IN [g \in 1..Len(aliases) |->
          SelectSeq(keys, LAMBDA key : synonym_alias(key) = aliases[g])]

\* HeaderNode.total_rows
total_rows(variants, key) ==
    Cardinality({i \in 1..Len(variants) : variants[i].raw_name = key})

\* _select_canonical_name: max keeps the first node with the greatest score
select_canonical_name(group, variants) ==
    LET j == CHOOSE j \in 1..Len(group) :
               /\ \A m \in 1..Len(group) :
                     total_rows(variants, group[m])
                         <= total_rows(variants, group[j])
               /\ \A m \in 1..(j - 1) :
                     total_rows(variants, group[m])
                         < total_rows(variants, group[j])
    IN group[j]

\* _build_cluster, with the cluster_id the dataclass default produced;
\* confidence_score is kept as the number of sources that determines it
build_cluster(group, variants, id) ==
    LET own == SelectSeq(variants, LAMBDA v : v.raw_name \in Range(group))
        ordered == StableSort(own, [v \in Range(own) |->
                       v.file_path * (MaxColumns + 1) + v.column_index])
    IN [cluster_id |-> id,
        canonical_name |-> select_canonical_name(group, variants),
        variants |-> ordered,
        confidence_score |-> Min(4, Len(ordered)),
        needs_review |-> (Len(group) = 1)]

\* clusters.sort(key=lambda cluster: cluster.canonical_name.lower())
sort_clusters(cs) ==
    StableSort(cs, [c \in Range(cs) |-> NameRank(c.canonical_name)])

\* serialize_header_variant without samples
serialize_header_variant(v) ==
    [file_path |-> v.file_path, column_index |-> v.column_index,
     raw_name |-> v.raw_name, row_count |-> v.row_count]

\* serialize_header_cluster
serialize_header_cluster(c) ==
    [cluster_id |-> c.cluster_id,
     canonical_name |-> c.canonical_name,
     variants |-> [i \in 1..Len(c.variants) |->
                      serialize_header_variant(c.variants[i])],
     confidence_score |-> c.confidence_score,
     needs_review |-> c.needs_review]

HcInit ==
    /\ analysis \in UNION {[1..n -> HeaderLists] : n \in 1..MaxResults}
    /\ clusters = [r \in Runs |-> <<>>]
    /\ artifact = [r \in Runs |-> <<>>]
    /\ hcPc = [r \in Runs |-> "ready"]

HcIdle ==
    /\ analysis = <<>>
    /\ clusters = [r \in Runs |-> <<>>]
    /\ artifact = [r \in Runs |-> <<>>]
    /\ hcPc = [r \in Runs |-> "idle"]

\* HeaderClusterizer.build in run r; every HeaderCluster gets the
\* identifier uuid4() returns
build(r) ==
    /\ hcPc[r] = "ready"
    /\ LET variants == accumulate_variants(analysis, 1)
           groups == link_nodes(node_keys(variants))
       IN \E ids \in [1..Len(groups) -> UUIDs] :
            clusters' = [clusters EXCEPT ![r] =
                sort_clusters([g \in 1..Len(groups) |->
                    build_cluster(groups[g], variants, ids[g])])]
    /\ hcPc' = [hcPc EXCEPT ![r] = "built"]
    /\ UNCHANGED <<analysis, artifact>>

\* the clusters of run r are serialized
serialize(r) ==
    /\ hcPc[r] = "built"
    /\ artifact' = [artifact EXCEPT ![r] =
          [i \in 1..Len(clusters[r]) |-> serialize_header_cluster(clusters[r][i])]]
    /\ hcPc' = [hcPc EXCEPT ![r] = "serialized"]
    /\ UNCHANGED <<analysis, clusters>>

HcNext ==
    \/ \E r \in Runs : build(r)
    \/ \E r \in Runs : serialize(r)

(***************************************************************************)
(* Part 12: MappingConfig.to_dict / MappingConfig.from_dict                *)
(* A UUID is a number, its text form a string; None is <<>> and a present  *)
(* value is <<v>>.  A payload key that is left out is <<>>; a text key     *)
(* holding JSON null is <<"null">>, a number key holding null is <<>>.     *)
(***************************************************************************)
VARIABLES
    mapping,    \* the MappingConfig x
    samples,    \* the include_samples argument of to_dict
    payload,    \* x.to_dict(), <<>> before the call
    restored,   \* what from_dict returned or raised, <<>> before the call
    mcPc        \* "ready", "serialized", "restored"

mcVars == <<mapping, samples, payload, restored, mcPc>>

UUIDValues == {1, 2}

SampleSets == {{}, {"foo"}}

\* str(uuid)
uuid_str(u) == IF u = 1 THEN "00000000-0000-0000-0000-000000000001"
               ELSE "00000000-0000-0000-0000-000000000002"

\* UUID(text)
uuid_parse(text) == CHOOSE u \in UUIDValues : uuid_str(u) = text

\* a FileBlock: block_id, schema_id and the sample_values of its signature
Blocks == [block_id : 0..MaxIndex, schema_id : {<<>>} \cup {<<u>> : u \in UUIDValues},
           sample_values : SampleSets]

Schemas == [id : UUIDValues, name : {"city"}]

SchemaMappingEntries ==
    [source_index : 0..MaxIndex,
     target_index : {<<>>} \cup {<<i>> : i \in 0..MaxIndex},
     offset_from_index : {<<>>} \cup {<<d>> : d \in {-1, 1}}]

serialize_block(block, include_samples) ==
    [block_id |-> block.block_id,
     schema_id |-> IF block.schema_id # <<>>
                   THEN <<uuid_str(block.schema_id[1])>> ELSE <<"null">>,
     sample_values |-> IF include_samples THEN <<block.sample_values>>
                       ELSE <<>>]

\* deserialize_block: a missing sample_values key gives the empty set
deserialize_block(data) ==
    [block_id |-> data.block_id,
     schema_id |-> IF data.schema_id # <<"null">>
                   THEN <<uuid_parse(data.schema_id[1])>> ELSE <<>>,
     sample_values |-> IF data.sample_values = <<>> THEN {}
                       ELSE data.sample_values[1]]

serialize_schema(schema) ==
    [id |-> uuid_str(schema.id), name |-> schema.name]

deserialize_schema(data) ==
    [id |-> uuid_parse(data.id), name |-> data.name]

\* target_index is always written (null for None), offset_from_index only
\* when it is not None
serialize_schema_mapping_entry(entry) ==
    [source_index |-> entry.source_index,
     target_index |-> entry.target_index,
     offset_from_index |-> entry.offset_from_index]

\* int(data["target_index"]) raises TypeError for None
entry_raises(data) == data.target_index = <<>>

deserialize_schema_mapping_entry(data) ==
    [source_index |-> data.source_index,
     target_index |-> data.target_index,
     offset_from_index |-> data.offset_from_index]

mapping_to_dict(x, include_samples) ==
    [blocks |-> [k \in 1..Len(x.blocks) |->
                    serialize_block(x.blocks[k], include_samples)],
     schemas |-> [k \in 1..Len(x.schemas) |-> serialize_schema(x.schemas[k])],
     schema_mapping |-> [k \in 1..Len(x.schema_mapping) |->
                    serialize_schema_mapping_entry(x.schema_mapping[k])]]

mapping_from_dict(data) ==
    IF \E k \in 1..Len(data.schema_mapping) :
          entry_raises(data.schema_mapping[k])
    THEN [raised |-> "TypeError"]
    ELSE [raised |-> "",
          blocks |-> [k \in 1..Len(data.blocks) |->
                         deserialize_block(data.blocks[k])],
          schemas |-> [k \in 1..Len(data.schemas) |->
                         deserialize_schema(data.schemas[k])],
          schema_mapping |-> [k \in 1..Len(data.schema_mapping) |->
                deserialize_schema_mapping_entry(data.schema_mapping[k])]]

McInit ==
    /\ mapping \in [blocks : {<<b>> : b \in Blocks},
                    schemas : {<<s>> : s \in Schemas},
                    schema_mapping :
                       {<<>>} \cup {<<e>> : e \in SchemaMappingEntries}]
    /\ samples \in BOOLEAN
    /\ payload = <<>>
    /\ restored = <<>>
    /\ mcPc = "ready"

McIdle ==
    /\ mapping = <<>>
    /\ samples = FALSE
    /\ payload = <<>>
    /\ restored = <<>>
    /\ mcPc = "idle"

to_dict ==
    /\ mcPc = "ready"
    /\ payload' = <<mapping_to_dict(mapping, samples)>>
    /\ mcPc' = "serialized"
    /\ UNCHANGED <<mapping, samples, restored>>

from_dict ==
    /\ mcPc = "serialized"
    /\ restored' = <<mapping_from_dict(payload[1])>>
    /\ mcPc' = "restored"
    /\ UNCHANGED <<mapping, samples, payload>>

McNext ==
    \/ to_dict
    \/ from_dict

(***************************************************************************)
(* Part 13: record_progress_event and the pruning of job_progress_events   *)
(* A row is its AUTOINCREMENT id, its schema_id and its created_at; the    *)
(* other columns play no part in the pruning.  created_at is time.time(),  *)
(* the wall clock: any value, not necessarily later than the one before.   *)
(***************************************************************************)
VARIABLES
    job_progress_events,  \* the rows of the table
    last_id,              \* the greatest id handed out
    evLog                 \* history: the schema_id of every insert, by id

evVars == <<job_progress_events, last_id, evLog>>

SchemaIds == {"s1", "s2"}

ClockValues == 1..MaxClock

\* the rows of one schema
rows_of(table, schema_id) == {r \in table : r.schema_id = schema_id}

\* SELECT id ... WHERE schema_id = ? ORDER BY created_at DESC LIMIT ?: the
\* rows the subquery returns.  It walks the index on (schema_id,
\* created_at) backwards, so rows with equal created_at come by descending
\* id.
newest_by_created_at(table, schema_id, keep) ==
    LET mine == rows_of(table, schema_id)
        later(r) == {k \in mine :
                        \/ k.created_at > r.created_at
                        \/ k.created_at = r.created_at /\ k.id > r.id}
    IN {r \in mine : Cardinality(later(r)) < keep}

\* _prune_progress_events(conn, schema_id)
prune_progress_events(table, schema_id) ==
    IF MAX_PROGRESS_EVENTS_PER_SCHEMA <= 0
    THEN table \ rows_of(table, schema_id)
    ELSE (table \ rows_of(table, schema_id))
            \cup newest_by_created_at(table, schema_id,
                                      MAX_PROGRESS_EVENTS_PER_SCHEMA)

EvInit ==
    /\ job_progress_events = {}
    /\ last_id = 0
    /\ evLog = <<>>

EvIdle ==
    /\ job_progress_events = {}
    /\ last_id = -1
    /\ evLog = <<>>

\* record_progress_event(db_path, progress): INSERT, prune, commit
record_progress_event(schema_id, now) ==
    /\ last_id >= 0
    /\ last_id < MaxEvents
    /\ LET row == [id |-> last_id + 1, schema_id |-> schema_id,
                   created_at |-> now]
       IN job_progress_events' =
             prune_progress_events(job_progress_events \cup {row}, schema_id)
    /\ last_id' = last_id + 1
    /\ evLog' = Append(evLog, schema_id)

EvNext ==
    \E schema_id \in SchemaIds, now \in ClockValues :
        record_progress_event(schema_id, now)

(***************************************************************************)
(* Part 14: ValidationTracker.normalize                                    *)
(* A cell is "" or "a"; the observed_length hint is <<>> (None) or <<n>>.  *)
(***************************************************************************)
VARIABLES
    expected_columns,  \* the tracker's width
    vtValues,          \* the row handed to normalize
    vtObserved,        \* the observed_length argument
    vtResult,          \* <<>> before the call, <<normalized>> after it
    short_rows,
    long_rows,
    empty_rows,
    vtTotalRows        \* the tracker's total_rows

vtVars == <<expected_columns, vtValues, vtObserved, vtResult, short_rows,
            long_rows, empty_rows, vtTotalRows>>

Cells == {"", "a"}

Rows == UNION {[1..n -> Cells] : n \in 0..MaxCells}

\* normalized.extend([""] * (expected - len(normalized)))
pad(row, width) == row \o [k \in 1..(width - Len(row)) |-> ""]

\* normalized[:expected]
truncate(row, width) ==
    SubSeq(row, 1, IF Len(row) < width THEN Len(row) ELSE width)

\* the body of `if length_hint < expected ... else` in both branches that
\* pad and truncate
pad_or_truncate(row, width) ==
    IF Len(row) < width THEN pad(row, width)
    ELSE IF Len(row) > width THEN truncate(row, width)
    ELSE row

length_hint(values, observed_length) ==
    IF observed_length # <<>> THEN observed_length[1] ELSE Len(values)

normalized_row(values, observed_length, expected) ==
    LET hint == length_hint(values, observed_length)
    IN IF hint < expected THEN pad_or_truncate(values, expected)
       ELSE IF hint > expected THEN truncate(values, expected)
       ELSE pad_or_truncate(values, expected)

\* ValidationTracker(expected_columns): expected_columns = max(1, argument)
VtInit ==
    /\ expected_columns \in {IF n < 1 THEN 1 ELSE n : n \in 0..MaxExpected}
    /\ vtValues \in Rows
    /\ vtObserved \in {<<>>} \cup {<<n>> : n \in 0..MaxCells}
    /\ vtResult = <<>>
    /\ short_rows = 0
    /\ long_rows = 0
    /\ empty_rows = 0
    /\ vtTotalRows = 0

VtIdle ==
    /\ expected_columns = 0
    /\ vtValues = <<>>
    /\ vtObserved = <<>>
    /\ vtResult = <<>>
    /\ short_rows = 0
    /\ long_rows = 0
    /\ empty_rows = 0
    /\ vtTotalRows = 0

\* normalize(values, observed_length=...), without a canonical validator
normalize ==
    /\ expected_columns > 0
    /\ vtResult = <<>>
    /\ LET hint == length_hint(vtValues, vtObserved)
       IN /\ short_rows' = short_rows + (IF hint < expected_columns THEN 1 ELSE 0)
          /\ long_rows' = long_rows + (IF hint > expected_columns THEN 1 ELSE 0)
    /\ empty_rows' = empty_rows
          + (IF \A k \in 1..Len(vtValues) : vtValues[k] = "" THEN 1 ELSE 0)
    /\ vtResult' = <<normalized_row(vtValues, vtObserved, expected_columns)>>
    /\ vtTotalRows' = vtTotalRows + 1
    /\ UNCHANGED <<expected_columns, vtValues, vtObserved>>

VtNext == normalize

(***************************************************************************)
(* Part 15: BlockPlanner.iter_block_buffers                                *)
(* The generator reads the file line by line and yields every planned      *)
(* block with the lines it captured.  A line is known by its number; the   *)
(* file is the byte length of every line.                                  *)
(***************************************************************************)
VARIABLES
    ibPlan,              \* the plan argument, sorted by start_line
    ibFile,              \* len(raw_line) of every line of the file
    buffer_limit_bytes,  \* BlockPlanner.buffer_limit_bytes
    plan_iter,           \* blocks taken from iter(plan)
    current,             \* the block being filled, <<>> for None
    ibBuffer,            \* buffer: the line numbers captured
    buffer_bytes,        \* bytes held by buffer
    line_number,         \* next value of enumerate(handle)
    yielded,             \* history: every (block, lines) pair yielded
    ibPc                 \* "idle", "ready", "loop", "after", "done"

ibVars == <<ibPlan, ibFile, buffer_limit_bytes, plan_iter, current, ibBuffer,
            buffer_bytes, line_number, yielded, ibPc>>

LineSizes == {1, 2}

PlannedBlocks ==
    {b \in [start_line : 0..MaxEnd, end_line : 0..MaxEnd] :
        b.start_line <= b.end_line}

\* planned.sort(key=lambda block: block.start_line): the plans handed to the
\* generator are in ascending start order; blocks may overlap
SortedPlans ==
    UNION {{p \in [1..n -> PlannedBlocks] :
              \A i \in 1..(n - 1) : p[i].start_line <= p[i + 1].start_line}
           : n \in 0..MaxPlanned}

\* block_id is the position in the plan
with_ids(p) ==
    [k \in 1..Len(p) |-> [block_id |-> k, start_line |-> p[k].start_line,
                          end_line |-> p[k].end_line]]

Handles == UNION {[1..n -> LineSizes] : n \in 0..MaxHandleLines}

\* flush_buffer(block): yield the block with a copy of the buffer, clear it
ibb_flush_buffer(g) ==
    [g EXCEPT !.yielded = Append(@, [block |-> g.current[1],
                                     lines |-> g.buffer]),
              !.buffer = <<>>,
              !.buffer_bytes = 0]

\* current = next(plan_iter, None)
next_planned(g, blocks_plan) ==
    IF g.plan_iter < Len(blocks_plan)
      THEN [g EXCEPT !.current = <<blocks_plan[g.plan_iter + 1]>>,
                     !.plan_iter = @ + 1]
      ELSE [g EXCEPT !.current = <<>>]

\* while current and line_number > current.end_line: flush, next
RECURSIVE flush_passed(_, _, _)
flush_passed(g, blocks_plan, n) ==
    IF g.current # <<>> /\ n > g.current[1].end_line
      THEN flush_passed(next_planned(ibb_flush_buffer(g), blocks_plan), blocks_plan, n)
      ELSE g

\* the line is appended when it lies in the block and fits under the cap
capture(g, n, size, cap) ==
    IF /\ g.current[1].start_line <= n
       /\ n <= g.current[1].end_line
       /\ g.buffer_bytes + size <= cap
      THEN [g EXCEPT !.buffer = Append(@, n), !.buffer_bytes = @ + size]
      ELSE g

\* if line_number == current.end_line: flush, next
flush_at_end(g, blocks_plan, n) ==
    IF g.current # <<>> /\ n = g.current[1].end_line
      THEN next_planned(ibb_flush_buffer(g), blocks_plan)
      ELSE g

\* for remaining in plan_iter: yield remaining, []
remaining(g, blocks_plan) ==
    [g EXCEPT !.yielded = @ \o [k \in 1..(Len(blocks_plan) - g.plan_iter) |->
                                  [block |-> blocks_plan[g.plan_iter + k],
                                   lines |-> <<>>]],
              !.plan_iter = Len(blocks_plan)]

\* after the loop: the block still open is flushed, the rest yields empty
after_loop(g, blocks_plan) ==
    remaining(IF g.current # <<>>
                THEN next_planned(ibb_flush_buffer(g), blocks_plan)
                ELSE g, blocks_plan)

Gen == [plan_iter |-> plan_iter, current |-> current, buffer |-> ibBuffer,
        buffer_bytes |-> buffer_bytes, yielded |-> yielded]

SetGen(g) ==
    /\ plan_iter' = g.plan_iter
    /\ current' = g.current
    /\ ibBuffer' = g.buffer
    /\ buffer_bytes' = g.buffer_bytes
    /\ yielded' = g.yielded

IbInit ==
    /\ ibPlan \in {with_ids(p) : p \in SortedPlans}
    /\ ibFile \in Handles
    /\ buffer_limit_bytes \in 1..MaxBufferLimit
    /\ plan_iter = 0
    /\ current = <<>>
    /\ ibBuffer = <<>>
    /\ buffer_bytes = 0
    /\ line_number = 0
    /\ yielded = <<>>
    /\ ibPc = "ready"

IbIdle ==
    /\ ibPlan = <<>>
    /\ ibFile = <<>>
    /\ buffer_limit_bytes = 1
    /\ plan_iter = 0
    /\ current = <<>>
    /\ ibBuffer = <<>>
    /\ buffer_bytes = 0
    /\ line_number = 0
    /\ yielded = <<>>
    /\ ibPc = "idle"

\* the call up to the opening of the file: an empty plan ends the generator
iter_block_buffers ==
    /\ ibPc = "ready"
    /\ IF ibPlan = <<>>
         THEN /\ ibPc' = "done"
              /\ UNCHANGED <<plan_iter, current>>
         ELSE /\ ibPc' = "loop"
              /\ plan_iter' = 1
              /\ current' = <<ibPlan[1]>>
    /\ UNCHANGED <<ibPlan, ibFile, buffer_limit_bytes, ibBuffer, buffer_bytes,
                   line_number, yielded>>

\* one pass of the for loop over the file
read_line ==
    /\ ibPc = "loop"
    /\ line_number < Len(ibFile)
    /\ LET passed == flush_passed(Gen, ibPlan, line_number)
       IN IF passed.current = <<>>
            THEN /\ SetGen(passed)
                 /\ ibPc' = "after"
                 /\ UNCHANGED line_number
            ELSE /\ SetGen(flush_at_end(
                             capture(passed, line_number,
                                     ibFile[line_number + 1],
                                     buffer_limit_bytes),
                             ibPlan, line_number))
                 /\ line_number' = line_number + 1
                 /\ UNCHANGED ibPc
    /\ UNCHANGED <<ibPlan, ibFile, buffer_limit_bytes>>

\* the file is exhausted or the loop was left by break
end_of_file ==
    /\ \/ ibPc = "after"
       \/ ibPc = "loop" /\ line_number = Len(ibFile)
    /\ SetGen(after_loop(Gen, ibPlan))
    /\ ibPc' = "done"
    /\ UNCHANGED <<ibPlan, ibFile, buffer_limit_bytes, line_number>>

IbNext == iter_block_buffers \/ read_line \/ end_of_file

(***************************************************************************)
(* Part 16: HeaderClusterizer._link_nodes and _should_link                 *)
(* A slug is a sequence of characters.  The same set of nodes is linked    *)
(* twice, in two orders (the order of the nodes follows the order in which *)
(* the files name the headers).                                            *)
(***************************************************************************)
VARIABLES
    lnNodes,   \* the nodes argument of every run
    grouped,   \* the groups every run returned, as lists of node keys
    lnPc       \* every run: "idle", "ready", "linked"

lnVars == <<lnNodes, grouped, lnPc>>

\* similarity_threshold, in hundredths
SIMILARITY_THRESHOLD == 78

Vowels == {"a", "e", "i", "o", "u", "y"}

\* the slugs of the headers the files can name; "" is the slug of a header
\* without letters or digits
HeaderSlugs ==
    [aaba   |-> <<"a", "a", "b", "a">>,
     baacba |-> <<"b", "a", "a", "c", "b", "a">>,
     aab    |-> <<"a", "a", "b">>,
     city   |-> <<"c", "i", "t", "y">>,
     town   |-> <<"t", "o", "w", "n">>,
     hash   |-> <<>>]

NodeKeys == DOMAIN HeaderSlugs

\* HeaderNode.dominant_type: "" is None
DominantTypes == {"", "integer", "text"}

\* _DEFAULT_SYNONYM_SETS: town is filed under city, every other slug of the
\* model under itself
synonym_map_get(key) == IF key = "town" THEN HeaderSlugs["city"]
                        ELSE HeaderSlugs[key]

\* slug.replace(" ", "")
translit_of(slug) == SelectSeq(slug, LAMBDA ch : ch # " ")

\* _skeleton
skeleton_of(slug) == SelectSeq(translit_of(slug), LAMBDA ch : ch \notin Vowels)

\* _build_nodes: the attributes of the node of a header
header_node(key, dominant) ==
    [key |-> key,
     slug |-> HeaderSlugs[key],
     alias |-> synonym_map_get(key),
     translit |-> translit_of(HeaderSlugs[key]),
     skeleton |-> skeleton_of(HeaderSlugs[key]),
     dominant_type |-> dominant]

\* SequenceMatcher.find_longest_match on a[alo..ahi] and b[blo..bhi]: the
\* longest common block, of those the one starting earliest in a, of those
\* the one starting earliest in b; <<0, 0, 0>> when no character matches
find_longest_match(a, alo, ahi, b, blo, bhi) ==
    LET blocks_ == {m \in (alo..ahi) \X (blo..bhi) \X (1..Len(a)) :
                      /\ m[1] + m[3] - 1 <= ahi
                      /\ m[2] + m[3] - 1 <= bhi
                      /\ \A t \in 0..(m[3] - 1) : a[m[1] + t] = b[m[2] + t]}
    IN IF blocks_ = {} THEN <<0, 0, 0>>
       ELSE CHOOSE m \in blocks_ :
              \A o \in blocks_ :
                 \/ o[3] < m[3]
                 \/ o[3] = m[3] /\ m[1] < o[1]
                 \/ o[3] = m[3] /\ m[1] = o[1] /\ m[2] <= o[2]

\* SequenceMatcher.get_matching_blocks: the characters matched, found by
\* taking the longest block and then matching the pieces left and right of it
RECURSIVE matched_chars(_, _, _, _, _, _)
matched_chars(a, alo, ahi, b, blo, bhi) ==
    LET m == find_longest_match(a, alo, ahi, b, blo, bhi)
    IN IF m[3] = 0 THEN 0
       ELSE m[3]
            + matched_chars(a, alo, m[1] - 1, b, blo, m[2] - 1)
            + matched_chars(a, m[1] + m[3], ahi, b, m[2] + m[3], bhi)

\* SequenceMatcher(None, a, b).ratio() >= similarity_threshold, where
\* ratio = 2 * matches / (len(a) + len(b))
similar(a, b) ==
    200 * matched_chars(a, 1, Len(a), b, 1, Len(b))
        >= SIMILARITY_THRESHOLD * (Len(a) + Len(b))

\* _should_link(left, right)
should_link(left, right) ==
    IF left.alias # <<>> /\ left.alias = right.alias THEN TRUE
    ELSE IF left.slug = <<>> \/ right.slug = <<>> THEN FALSE
    ELSE IF /\ left.dominant_type # ""
            /\ right.dominant_type # ""
            /\ left.dominant_type # right.dominant_type THEN FALSE
    ELSE IF similar(left.slug, right.slug) THEN TRUE
    ELSE IF left.translit # <<>> /\ left.translit = right.translit THEN TRUE
    ELSE IF /\ left.skeleton # <<>>
            /\ left.skeleton = right.skeleton
            /\ Len(left.skeleton) >= 3 THEN TRUE
    ELSE /\ Len(left.slug) <= 4 \/ Len(right.slug) <= 4
         /\ IsPrefix(right.slug, left.slug) \/ IsPrefix(left.slug, right.slug)

\* find(key) with path halving: <<parent after the call, root>>
RECURSIVE find(_, _)
find(parent, key) ==
    IF parent[key] = key THEN <<parent, key>>
    ELSE LET halved == [parent EXCEPT ![key] = parent[parent[key]]]
         IN find(halved, halved[key])

\* union(a, b): the root of b is hung under the root of a
union(parent, a, b) ==
    LET fa == find(parent, a)
        fb == find(fa[1], b)
    IN IF fa[2] = fb[2] THEN fb[1]
       ELSE [fb[1] EXCEPT ![fb[2]] = fa[2]]

\* for keys in alias_buckets.values(): every node with a non-empty alias is
\* united with the first node of its alias; nodes k.. are still to do
RECURSIVE union_alias_buckets(_, _, _)
union_alias_buckets(parent, nodes, k) ==
    IF k > Len(nodes) THEN parent
    ELSE LET base == CHOOSE i \in 1..k :
                       /\ nodes[i].alias = nodes[k].alias
                       /\ \A j \in 1..(i - 1) : nodes[j].alias # nodes[k].alias
         IN union_alias_buckets(
              IF nodes[k].alias # <<>> /\ base < k
                THEN union(parent, nodes[base].key, nodes[k].key)
                ELSE parent,
              nodes, k + 1)

\* the double loop over idx < jdx, from the pair (idx, jdx) on
RECURSIVE union_pairs(_, _, _, _)
union_pairs(parent, nodes, left_idx, right_idx) ==
    IF left_idx > Len(nodes) THEN parent
    ELSE IF right_idx > Len(nodes) THEN union_pairs(parent, nodes, left_idx + 1, left_idx + 2)
    ELSE union_pairs(
           IF should_link(nodes[left_idx], nodes[right_idx])
             THEN union(parent, nodes[left_idx].key, nodes[right_idx].key)
             ELSE parent,
           nodes, left_idx, right_idx + 1)

\* grouped[find(node.key)].append(node); list(grouped.values()): the groups
\* in the order of their first node, each in node order
group_by_root(parent, nodes) ==
    LET root(i) == find(parent, nodes[i].key)[2]
        firsts == SelectSeq([i \in 1..Len(nodes) |-> i],
                            LAMBDA i : \A j \in 1..(i - 1) : root(j) # root(i))
    IN [g \in 1..Len(firsts) |->
          LET members == SelectSeq([i \in 1..Len(nodes) |-> i],
                                   LAMBDA i : root(i) = root(firsts[g]))
          IN [m \in 1..Len(members) |-> nodes[members[m]].key]]

\* _link_nodes
link_nodes_groups(nodes) ==
    IF nodes = <<>> THEN <<>>
    ELSE LET parent == [key \in {nodes[i].key : i \in 1..Len(nodes)} |-> key]
             aliased == union_alias_buckets(parent, nodes, 1)
             linked == union_pairs(aliased, nodes, 1, 2)
         IN group_by_root(linked, nodes)

LinkRuns == {1, 2}

\* the lists of n distinct node keys
DistinctKeys(n) ==
    {k \in [1..n -> NodeKeys] : \A i, j \in 1..n : i # j => k[i] # k[j]}

\* the orders a list of n nodes can be put in
Reorderings(n) ==
    {f \in [1..n -> 1..n] : \A i, j \in 1..n : i # j => f[i] # f[j]}

\* the first run gets nodes with distinct keys, the second run the same
\* nodes in any order
LnInit ==
    /\ \E n \in 1..MaxNodes :
         \E keys \in DistinctKeys(n), types \in [1..n -> DominantTypes],
            f \in Reorderings(n) :
            lnNodes = <<[i \in 1..n |-> header_node(keys[i], types[i])],
                        [i \in 1..n |-> header_node(keys[f[i]], types[f[i]])]>>
    /\ grouped = [r \in LinkRuns |-> <<>>]
    /\ lnPc = [r \in LinkRuns |-> "ready"]

LnIdle ==
    /\ lnNodes = [r \in LinkRuns |-> <<>>]
    /\ grouped = [r \in LinkRuns |-> <<>>]
    /\ lnPc = [r \in LinkRuns |-> "idle"]

\* run r calls _link_nodes on its list
link_nodes_run(r) ==
    /\ lnPc[r] = "ready"
    /\ grouped' = [grouped EXCEPT ![r] = link_nodes_groups(lnNodes[r])]
    /\ lnPc' = [lnPc EXCEPT ![r] = "linked"]
    /\ UNCHANGED lnNodes

LnNext == \E r \in LinkRuns : link_nodes_run(r)

(***************************************************************************)
(* Part 17: RowNormalizer.normalize (core/materialization/runner.py)       *)
(* The cell row[i] is written i + 1 and the empty string 0, so that every  *)
(* source cell can be told from every other in the output.  All mapping    *)
(* entries belong to the file of the row.                                  *)
(***************************************************************************)
VARIABLES
    rnMappings,  \* the mappings the normalizer was built with
    rnRow,       \* the row handed to normalize
    rnResult     \* <<>> before the call, <<NormalizedRow>> after it

rnVars == <<rnMappings, rnRow, rnResult>>

OptionalTarget == {<<>>} \cup {<<t>> : t \in 0..MaxTarget}

\* a SchemaMappingEntry: by_name is what the lookup of canonical_name in the
\* schema (by slug, then by type) gives when target_index is None
MappingEntries ==
    {e \in [source_index : 0..MaxSource, target_index : OptionalTarget,
            by_name : OptionalTarget] :
        e.target_index # <<>> => e.by_name = <<>>}

InputRows == {[i \in 1..n |-> i] : n \in 0..(MaxSource + 1)}

\* _build_index: a dict keeps a key at the place of its first insertion and
\* the value of its last; max_target is taken over every entry seen
build_index(mappings) ==
    LET sources == [k \in 1..Len(mappings) |-> mappings[k].source_index]
        firsts == SelectSeq([k \in 1..Len(mappings) |-> k],
                            LAMBDA k : \A j \in 1..(k - 1) :
                                          sources[j] # sources[k])
        last(s) == CHOOSE k \in 1..Len(mappings) :
                     /\ sources[k] = s
                     /\ \A j \in (k + 1)..Len(mappings) : sources[j] # s
        explicit == {mappings[k].target_index[1] :
                       k \in {j \in 1..Len(mappings) :
                                mappings[j].target_index # <<>>}}
    IN [entries |-> [k \in 1..Len(firsts) |->
                        mappings[last(sources[firsts[k]])]],
        max_target |-> IF explicit = {} THEN -1
                       ELSE CHOOSE t \in explicit : \A o \in explicit : o <= t]

\* _resolve_target_index: <<>> is None
resolve_target_index(entry) ==
    IF entry.target_index # <<>> THEN entry.target_index ELSE entry.by_name

\* one pass of `for source_index, entry in mapping["entries"].items()`
place_entry(w, row, entry) ==
    LET target == resolve_target_index(entry)
    IN IF target = <<>> THEN w
       ELSE LET width == Max(Len(w.normalized), target[1] + 1)
                value == IF entry.source_index < Len(row)
                           THEN row[entry.source_index + 1] ELSE 0
            IN [normalized |->
                   [p \in 1..width |->
                      IF p = target[1] + 1 THEN value
                      ELSE IF p <= Len(w.normalized) THEN w.normalized[p]
                      ELSE 0],
                assigned |->
                   [p \in 1..width |->
                      IF p = target[1] + 1 THEN TRUE
                      ELSE IF p <= Len(w.assigned) THEN w.assigned[p]
                      ELSE FALSE],
                used_sources |-> w.used_sources \cup {entry.source_index}]

RECURSIVE place_entries(_, _, _, _)
place_entries(w, row, entries, k) ==
    IF k > Len(entries) THEN w
    ELSE place_entries(place_entry(w, row, entries[k]), row, entries, k + 1)

\* the unassigned positions take the cells not used, in row order, and ""
\* when these run out
fill_remainder(w, row) ==
    LET remainder == SelectSeq(row, LAMBDA cell : (cell - 1) \notin w.used_sources)
        free(p) == Cardinality({q \in 1..p : ~w.assigned[q]})
    IN [p \in 1..Len(w.normalized) |->
          IF w.assigned[p] THEN w.normalized[p]
          ELSE IF free(p) <= Len(remainder) THEN remainder[free(p)]
          ELSE 0]

\* RowNormalizer.normalize
normalized_by_mapping(row, mappings) ==
    LET bucket == build_index(mappings)
        working_width == Max(Max(Len(row), bucket.max_target + 1), 1)
        start == [normalized |-> [p \in 1..working_width |-> 0],
                  assigned |-> [p \in 1..working_width |-> FALSE],
                  used_sources |-> {}]
    IN IF mappings = <<>>
         THEN [values |-> row, observed_length |-> Len(row)]
         ELSE [values |-> fill_remainder(
                            place_entries(start, row, bucket.entries, 1), row),
               observed_length |-> Len(row)]

RnInit ==
    /\ rnMappings \in UNION {[1..n -> MappingEntries] : n \in 0..MaxEntries}
    /\ rnRow \in InputRows
    /\ rnResult = <<>>

RnIdle ==
    /\ rnMappings = <<>>
    /\ rnRow = <<>>
    /\ rnResult = <<>>

\* normalizer.normalize(row, schema, source_path=path)
row_normalize ==
    /\ rnResult = <<>>
    /\ rnResult' = <<normalized_by_mapping(rnRow, rnMappings)>>
    /\ UNCHANGED <<rnMappings, rnRow>>

RnNext == row_normalize

vars == <<jobVars, runVars, parVars, resVars, anVars, planVars, slugVars, ckVars, offVars, hcVars, mcVars, evVars, vtVars, ibVars, lnVars, rnVars>>

(***************************************************************************)
(* Specifications                                                          *)
(***************************************************************************)
InitJob ==
    /\ JobInit
    /\ RunIdle
    /\ ParIdle
    /\ ResIdle
    /\ AnIdle
    /\ PlanIdle
    /\ SlugIdle
    /\ CkIdle
    /\ OffIdle
    /\ HcIdle
    /\ McIdle
    /\ EvIdle
    /\ VtIdle
    /\ IbIdle
    /\ LnIdle
    /\ RnIdle

NextJob ==
    JobNext /\ UNCHANGED <<runVars, parVars, resVars, anVars, planVars,
    slugVars, ckVars, offVars, hcVars, mcVars, evVars, vtVars, ibVars,
    lnVars, rnVars>>

SpecJob == InitJob /\ [][NextJob]_vars

InitRun ==
    /\ RunInit
    /\ JobIdle
    /\ ParIdle
    /\ ResIdle
    /\ AnIdle
    /\ PlanIdle
    /\ SlugIdle
    /\ CkIdle
    /\ OffIdle
    /\ HcIdle
    /\ McIdle
    /\ EvIdle
    /\ VtIdle
    /\ IbIdle
    /\ LnIdle
    /\ RnIdle

NextRun ==
    RunNext /\ UNCHANGED <<jobVars, parVars, resVars, anVars, planVars,
    slugVars, ckVars, offVars, hcVars, mcVars, evVars, vtVars, ibVars,
    lnVars, rnVars>>

SpecRun == InitRun /\ [][NextRun]_vars

InitSpill ==
    /\ SpillInit
    /\ JobIdle
    /\ ParIdle
    /\ ResIdle
    /\ AnIdle
    /\ PlanIdle
    /\ SlugIdle
    /\ CkIdle
    /\ OffIdle
    /\ HcIdle
    /\ McIdle
    /\ EvIdle
    /\ VtIdle
    /\ IbIdle
    /\ LnIdle
    /\ RnIdle

NextSpill ==
    SpillNext /\ UNCHANGED <<jobVars, parVars, resVars, anVars, planVars,
    slugVars, ckVars, offVars, hcVars, mcVars, evVars, vtVars, ibVars,
    lnVars, rnVars>>

SpecSpill == InitSpill /\ [][NextSpill]_vars

InitPar ==
    /\ ParInit
    /\ JobIdle
    /\ RunIdle
    /\ ResIdle
    /\ AnIdle
    /\ PlanIdle
    /\ SlugIdle
    /\ CkIdle
    /\ OffIdle
    /\ HcIdle
    /\ McIdle
    /\ EvIdle
    /\ VtIdle
    /\ IbIdle
    /\ LnIdle
    /\ RnIdle

NextPar ==
    ParNext /\ UNCHANGED <<jobVars, resVars, anVars, planVars, slugVars,
    ckVars, offVars, hcVars, mcVars, evVars, vtVars, ibVars, lnVars, rnVars,
    runOwnVars>>

SpecPar == InitPar /\ [][NextPar]_vars

InitRes ==
    /\ ResInit
    /\ JobIdle
    /\ RunIdle
    /\ ParIdle
    /\ AnIdle
    /\ PlanIdle
    /\ SlugIdle
    /\ CkIdle
    /\ OffIdle
    /\ HcIdle
    /\ McIdle
    /\ EvIdle
    /\ VtIdle
    /\ IbIdle
    /\ LnIdle
    /\ RnIdle

NextRes ==
    ResNext /\ UNCHANGED <<jobVars, runVars, parVars, anVars, planVars,
    slugVars, ckVars, offVars, hcVars, mcVars, evVars, vtVars, ibVars,
    lnVars, rnVars>>

SpecRes == InitRes /\ [][NextRes]_vars

InitAn ==
    /\ AnInit
    /\ JobIdle
    /\ RunIdle
    /\ ParIdle
    /\ ResIdle
    /\ PlanIdle
    /\ SlugIdle
    /\ CkIdle
    /\ OffIdle
    /\ HcIdle
    /\ McIdle
    /\ EvIdle
    /\ VtIdle
    /\ IbIdle
    /\ LnIdle
    /\ RnIdle

NextAn ==
    AnNext /\ UNCHANGED <<jobVars, runVars, parVars, resVars, planVars,
    slugVars, ckVars, offVars, hcVars, mcVars, evVars, vtVars, ibVars,
    lnVars, rnVars>>

SpecAn == InitAn /\ [][NextAn]_vars

\* every submitted task ends and wait() returns: the loop takes its next
\* step whenever it can; no analysis task fails
InitAnLive == InitAn /\ failing = {}

SpecAnLive == InitAnLive /\ [][NextAn]_vars /\ WF_vars(NextAn)

InitPlan ==
    /\ PlanInit
    /\ JobIdle
    /\ RunIdle
    /\ ParIdle
    /\ ResIdle
    /\ AnIdle
    /\ SlugIdle
    /\ CkIdle
    /\ OffIdle
    /\ HcIdle
    /\ McIdle
    /\ EvIdle
    /\ VtIdle
    /\ IbIdle
    /\ LnIdle
    /\ RnIdle

NextPlan ==
    PlanNext /\ UNCHANGED <<jobVars, runVars, parVars, resVars, anVars,
    slugVars, ckVars, offVars, hcVars, mcVars, evVars, vtVars, ibVars,
    lnVars, rnVars>>

SpecPlan == InitPlan /\ [][NextPlan]_vars

InitCancel ==
    /\ CancelInit
    /\ ParIdle
    /\ ResIdle
    /\ AnIdle
    /\ PlanIdle
    /\ SlugIdle
    /\ CkIdle
    /\ OffIdle
    /\ HcIdle
    /\ McIdle
    /\ EvIdle
    /\ VtIdle
    /\ IbIdle
    /\ LnIdle
    /\ RnIdle

NextCancel ==
    CancelNext /\ UNCHANGED <<parVars, resVars, anVars, planVars, slugVars,
    ckVars, offVars, hcVars, mcVars, evVars, vtVars, ibVars, lnVars,
    rnVars>>

SpecCancel == InitCancel /\ [][NextCancel]_vars

InitSlug ==
    /\ SlugInit
    /\ JobIdle
    /\ RunIdle
    /\ ParIdle
    /\ ResIdle
    /\ AnIdle
    /\ PlanIdle
    /\ CkIdle
    /\ OffIdle
    /\ HcIdle
    /\ McIdle
    /\ EvIdle
    /\ VtIdle
    /\ IbIdle
    /\ LnIdle
    /\ RnIdle

NextSlug ==
    SlugNext /\ UNCHANGED <<jobVars, runVars, parVars, resVars, anVars,
    planVars, ckVars, offVars, hcVars, mcVars, evVars, vtVars, ibVars,
    lnVars, rnVars>>

SpecSlug == InitSlug /\ [][NextSlug]_vars

InitCk ==
    /\ CkInit
    /\ JobIdle
    /\ RunIdle
    /\ ParIdle
    /\ ResIdle
    /\ AnIdle
    /\ PlanIdle
    /\ SlugIdle
    /\ OffIdle
    /\ HcIdle
    /\ McIdle
    /\ EvIdle
    /\ VtIdle
    /\ IbIdle
    /\ LnIdle
    /\ RnIdle

NextCk ==
    CkNext /\ UNCHANGED <<jobVars, runVars, parVars, resVars, anVars,
    planVars, slugVars, offVars, hcVars, mcVars, evVars, vtVars, ibVars,
    lnVars, rnVars>>

SpecCk == InitCk /\ [][NextCk]_vars

InitOff ==
    /\ OffInit
    /\ JobIdle
    /\ RunIdle
    /\ ParIdle
    /\ ResIdle
    /\ AnIdle
    /\ PlanIdle
    /\ SlugIdle
    /\ CkIdle
    /\ HcIdle
    /\ McIdle
    /\ EvIdle
    /\ VtIdle
    /\ IbIdle
    /\ LnIdle
    /\ RnIdle

NextOff ==
    OffNext /\ UNCHANGED <<jobVars, runVars, parVars, resVars, anVars,
    planVars, slugVars, ckVars, hcVars, mcVars, evVars, vtVars, ibVars,
    lnVars, rnVars>>

SpecOff == InitOff /\ [][NextOff]_vars

InitHc ==
    /\ HcInit
    /\ JobIdle
    /\ RunIdle
    /\ ParIdle
    /\ ResIdle
    /\ AnIdle
    /\ PlanIdle
    /\ SlugIdle
    /\ CkIdle
    /\ OffIdle
    /\ McIdle
    /\ EvIdle
    /\ VtIdle
    /\ IbIdle
    /\ LnIdle
    /\ RnIdle

NextHc ==
    HcNext /\ UNCHANGED <<jobVars, runVars, parVars, resVars, anVars,
    planVars, slugVars, ckVars, offVars, mcVars, evVars, vtVars, ibVars,
    lnVars, rnVars>>

SpecHc == InitHc /\ [][NextHc]_vars

InitMc ==
    /\ McInit
    /\ JobIdle
    /\ RunIdle
    /\ ParIdle
    /\ ResIdle
    /\ AnIdle
    /\ PlanIdle
    /\ SlugIdle
    /\ CkIdle
    /\ OffIdle
    /\ HcIdle
    /\ EvIdle
    /\ VtIdle
    /\ IbIdle
    /\ LnIdle
    /\ RnIdle

NextMc ==
    McNext /\ UNCHANGED <<jobVars, runVars, parVars, resVars, anVars,
    planVars, slugVars, ckVars, offVars, hcVars, evVars, vtVars, ibVars,
    lnVars, rnVars>>

SpecMc == InitMc /\ [][NextMc]_vars

InitEv ==
    /\ EvInit
    /\ JobIdle
    /\ RunIdle
    /\ ParIdle
    /\ ResIdle
    /\ AnIdle
    /\ PlanIdle
    /\ SlugIdle
    /\ CkIdle
    /\ OffIdle
    /\ HcIdle
    /\ McIdle
    /\ VtIdle
    /\ IbIdle
    /\ LnIdle
    /\ RnIdle

NextEv ==
    EvNext /\ UNCHANGED <<jobVars, runVars, parVars, resVars, anVars,
    planVars, slugVars, ckVars, offVars, hcVars, mcVars, vtVars, ibVars,
    lnVars, rnVars>>

SpecEv == InitEv /\ [][NextEv]_vars

InitVt ==
    /\ VtInit
    /\ JobIdle
    /\ RunIdle
    /\ ParIdle
    /\ ResIdle
    /\ AnIdle
    /\ PlanIdle
    /\ SlugIdle
    /\ CkIdle
    /\ OffIdle
    /\ HcIdle
    /\ McIdle
    /\ EvIdle
    /\ IbIdle
    /\ LnIdle
    /\ RnIdle

NextVt ==
    VtNext /\ UNCHANGED <<jobVars, runVars, parVars, resVars, anVars,
    planVars, slugVars, ckVars, offVars, hcVars, mcVars, evVars, ibVars,
    lnVars, rnVars>>

SpecVt == InitVt /\ [][NextVt]_vars

InitIb ==
    /\ IbInit
    /\ JobIdle
    /\ RunIdle
    /\ ParIdle
    /\ ResIdle
    /\ AnIdle
    /\ PlanIdle
    /\ SlugIdle
    /\ CkIdle
    /\ OffIdle
    /\ HcIdle
    /\ McIdle
    /\ EvIdle
    /\ VtIdle
    /\ LnIdle
    /\ RnIdle

NextIb ==
    IbNext /\ UNCHANGED <<jobVars, runVars, parVars, resVars, anVars,
    planVars, slugVars, ckVars, offVars, hcVars, mcVars, evVars, vtVars,
    lnVars, rnVars>>

SpecIb == InitIb /\ [][NextIb]_vars

InitLn ==
    /\ LnInit
    /\ JobIdle
    /\ RunIdle
    /\ ParIdle
    /\ ResIdle
    /\ AnIdle
    /\ PlanIdle
    /\ SlugIdle
    /\ CkIdle
    /\ OffIdle
    /\ HcIdle
    /\ McIdle
    /\ EvIdle
    /\ VtIdle
    /\ IbIdle
    /\ RnIdle

NextLn ==
    LnNext /\ UNCHANGED <<jobVars, runVars, parVars, resVars, anVars,
    planVars, slugVars, ckVars, offVars, hcVars, mcVars, evVars, vtVars,
    ibVars, rnVars>>

SpecLn == InitLn /\ [][NextLn]_vars

InitRn ==
    /\ RnInit
    /\ JobIdle
    /\ RunIdle
    /\ ParIdle
    /\ ResIdle
    /\ AnIdle
    /\ PlanIdle
    /\ SlugIdle
    /\ CkIdle
    /\ OffIdle
    /\ HcIdle
    /\ McIdle
    /\ EvIdle
    /\ VtIdle
    /\ IbIdle
    /\ LnIdle

NextRn ==
    RnNext /\ UNCHANGED <<jobVars, runVars, parVars, resVars, anVars,
    planVars, slugVars, ckVars, offVars, hcVars, mcVars, evVars, vtVars,
    ibVars, lnVars>>

SpecRn == InitRn /\ [][NextRn]_vars

(***************************************************************************)
(* Properties of the job state machine                                     *)
(***************************************************************************)
\* C4: once the machine is in DONE, FAILED or CANCELLED no later call
\* assigns its state or persists a status update or an event: a terminal
\* state can only be the last entry of each history.
C4_TerminalIsFinal ==
    /\ \A i \in 1..(Len(stateLog) - 1) : stateLog[i] \notin TERMINAL_STATES
    /\ \A i \in 1..(Len(statusLog) - 1) : statusLog[i] \notin TERMINAL_STATES
    /\ \A i \in 1..(Len(jobEvents) - 1) : jobEvents[i] \notin TERMINAL_STATES

\* C5: every change of the state either stays in the chain PENDING < ... <
\* DONE without lowering the rank, or moves from a non-terminal state to
\* FAILED or CANCELLED.
C5_RankMonotone ==
    [][state' # state =>
         \/ /\ state \in ChainStates
            /\ state' \in ChainStates
            /\ STATE_ORDER(state') >= STATE_ORDER(state)
         \/ /\ state \notin TERMINAL_STATES
            /\ state' \in {"FAILED", "CANCELLED"}]_vars

\* C6: with concurrent callers the status upsert of a state change comes
\* before its event, both under the lock: the events are a prefix of the
\* upserts, the upserts a prefix of the state changes, at most one change
\* is unrecorded and only while the lock is held; with the lock free the
\* event log equals the state changes and the status row is the last event.
C6_RecordedInOrder ==
    sqlite_path =>
        /\ IsPrefix(jobEvents, statusLog)
        /\ IsPrefix(statusLog, stateLog)
        /\ Len(stateLog) <= Len(jobEvents) + 1
        /\ lock = NoThread =>
              /\ jobEvents = stateLog
              /\ jobStatus = Last(jobEvents)
              /\ state = Last(stateLog)

C6_Witness ==
    /\ sqlite_path
    /\ lock = NoThread
    /\ Len(jobEvents) >= 3
    /\ result["t1"] = "ok"
    /\ result["t2"] = "ok"

\* a transition(target) call of thread t that must be rejected
MustReject(t) ==
    /\ op[t].kind = "transition"
    /\ op[t].target # state
    /\ \/ state \in TERMINAL_STATES
       \/ /\ op[t].target \in ChainStates
          /\ state \in ChainStates
          /\ STATE_ORDER(op[t].target) < STATE_ORDER(state)

\* C7: transition(target) to a lower rank, or to a different state from a
\* terminal state, raises and changes neither the in-memory state nor the
\* job_status row nor the job_events log, up to the return of the call.
C7_RejectedTransition ==
    [][\A t \in Threads :
         /\ (pc[t] = "locked" /\ pc'[t] # "locked" /\ MustReject(t)) =>
               /\ result'[t] = "error"
               /\ pc'[t] = "release"
               /\ state' = state
               /\ jobStatus' = jobStatus
               /\ jobEvents' = jobEvents
         /\ (pc[t] = "release" /\ result[t] = "error" /\ pc'[t] # "release") =>
               /\ pc'[t] = "idle"
               /\ state' = state
               /\ jobStatus' = jobStatus
               /\ jobEvents' = jobEvents]_vars

C7_Witness ==
    \E t \in Threads :
        /\ result[t] = "error"
        /\ pc[t] = "idle"
        /\ sqlite_path
        /\ state \notin TERMINAL_STATES
        /\ op[t].target \in ChainStates
        /\ STATE_ORDER(op[t].target) < STATE_ORDER(state)

(***************************************************************************)
(* Properties of the parallel schema jobs and of the spill buffer          *)
(***************************************************************************)
\* C3: with parallel schema jobs sharing the global seen-lines set, no
\* source row is emitted by more than one schema job.
C3_GlobalAtMostOnce ==
    \A w1, w2 \in SchemaJobs :
        w1 # w2 => Range(emitted[w1]) \cap Range(emitted[w2]) = {}

\* C10: every pushed row reaches the writer exactly once and in push
\* order, through a spill file or through flush; no spill file stays on
\* disk, and after close the buffer is empty.
C10_SpillDelivers ==
    rpc \in {"spill", "closed"} =>
        /\ wr.written \o buffer = pushed
        /\ spool = <<>>
        /\ rpc = "closed" => (buffer = <<>> /\ wr.written = pushed)

C10_Witness ==
    /\ rpc = "closed"
    /\ telemetry.rows_spilled >= 1
    /\ telemetry.rows_spilled < Len(pushed)
    /\ Len(pushed) = Len(wr.written)

(***************************************************************************)
(* Properties of the materialization run                                   *)
(***************************************************************************)
\* the source rows (file, line) covered by the blocks of the schema
SourceRows ==
    UNION {{<<blocks[i].file_path, l>> :
              l \in blocks[i].start_line..blocks[i].end_line} :
           i \in DOMAIN blocks}

\* positions of the chunk files that hold the row of source line key
Occurrences(key) ==
    UNION {{<<c, i>> : i \in {j \in 1..Len(wr.files[c]) : wr.files[c][j] = key}} :
           c \in DOMAIN wr.files}

\* no chunk index can exceed the number of writes and restarts
ChunkBound == (MaxLine + 1) * NumFiles * MaxBlocks * (MaxCrashes + 1) + MaxCrashes

\* rows held by chunk c of the writer's output
ChunkRowCount(c) ==
    CASE fmt = "database" ->
           Cardinality({i \in 1..Len(wr.table) : wr.table[i][1] = c})
           + Cardinality({i \in 1..Len(wr.txn) : wr.txn[i][1] = c})
      [] fmt = "parquet" ->
           (IF c \in DOMAIN wr.files THEN Len(wr.files[c]) ELSE 0)
           + (IF wr.open_chunk = c THEN Len(wr.pqBuffer) ELSE 0)
      [] OTHER -> IF c \in DOMAIN wr.files THEN Len(wr.files[c]) ELSE 0

RECURSIVE SumChunkRows(_)
SumChunkRows(c) == IF c < 0 THEN 0 ELSE ChunkRowCount(c) + SumChunkRows(c - 1)

WriterAlive == rpc \in {"block", "row", "flush", "checkpoint", "close", "clear", "done"}

\* C1: a CSV run that was interrupted between two steps and restarted on
\* the same checkpoint finishes with every source row exactly once in the
\* output and no checkpoint entry for the schema.
C1_ResumeExactlyOnce ==
    (rpc = "done" /\ fmt = "csv" /\ crashes >= 1) =>
        /\ \A key \in SourceRows : Cardinality(Occurrences(key)) = 1
        /\ checkpoint = <<>>

\* C2: within one run of a schema job every source row is pushed to the
\* spill buffer (hence the writer) at most once, also for overlapping or
\* repeated blocks.
C2_PushedAtMostOnce ==
    \A i, j \in 1..Len(pushed) : i # j => pushed[i].values # pushed[j].values

C2_Witness ==
    /\ rpc = "done"
    /\ crashes = 0
    /\ Len(blocks) = 2
    /\ blocks[1].end_line >= blocks[2].start_line
    /\ Len(pushed) >= 2

\* C8: a run whose checkpoint already records every block as processed
\* writes no row, reports the checkpoint's total_rows and removes the entry.
C8_IdempotentRerun ==
    (rpc = "done" /\ startCkpt # <<>> /\ startCkpt[1].next_block = Len(blocks)) =>
        /\ pushed = <<>>
        /\ wr.written = <<>>
        /\ rows_written = startCkpt[1].total_rows
        /\ checkpoint = <<>>

C8_Witness ==
    /\ rpc = "done"
    /\ startCkpt # <<>>
    /\ startCkpt[1].next_block = Len(blocks)
    /\ startCkpt[1].total_rows >= 2

\* C9: for a writer of any format, fresh or resumed, total_rows is the sum
\* of the rows of its chunks, no chunk holds more than chunk_rows rows, and
\* after close every path of output_files exists.
C9_WriterChunks ==
    WriterAlive =>
        /\ wr.total_rows = SumChunkRows(ChunkBound)
        /\ \A c \in 0..ChunkBound : ChunkRowCount(c) <= chunk_rows
        /\ rpc \in {"clear", "done"} =>
             \A c \in Range(wr.output_files) : c \in DOMAIN wr.files

(***************************************************************************)
(* Properties of the resource manager                                      *)
(***************************************************************************)
\* C11: whatever reserve and release calls the threads interleave, each of
\* the in-use totals of memory, disk and workers stays at or above zero and
\* at or below its configured ceiling, when that ceiling is set.
C11_WithinCeilings ==
    /\ in_use.memory_mb >= 0 /\ in_use.disk_mb >= 0 /\ in_use.workers >= 0
    /\ limits.memory_mb # <<>> => in_use.memory_mb <= limits.memory_mb[1]
    /\ limits.spill_mb # <<>> => in_use.disk_mb <= limits.spill_mb[1]
    /\ limits.max_workers # <<>> => in_use.workers <= limits.max_workers[1]

\* under a worker ceiling a lease of workers was reserved and has been
\* released, which brought the worker total back to zero
C11_Witness ==
    /\ limits.max_workers # <<>>
    /\ resResult = "released"
    /\ \E i \in DOMAIN leases :
          leases[i].released /\ leases[i].amounts.workers > 0
    /\ in_use.workers = 0

\* the request does not fit under at least one configured ceiling
WouldExceed(lim, use, req) ==
    \/ lim.memory_mb # <<>> /\ use.memory_mb + req.memory_mb > lim.memory_mb[1]
    \/ lim.spill_mb # <<>> /\ use.disk_mb + req.disk_mb > lim.spill_mb[1]
    \/ lim.max_workers # <<>> /\ use.workers + req.workers > lim.max_workers[1]

\* C12: a reserve whose request would exceed any one ceiling ends with
\* ResourceLimitError, hands out no lease and leaves the three in-use
\* counters as they were.
C12_RefusedReserveChangesNothing ==
    [][\A t \in Threads :
          (/\ rth[t].pc = "reserve_lock"
           /\ rth'[t].pc = "idle"
           /\ WouldExceed(limits, in_use, rth[t].req))
          => (/\ resResult' = "error"
              /\ in_use' = in_use
              /\ leases' = leases)]_vars

\* a reserve was refused while another reservation was held
C12_Witness ==
    /\ resResult = "error"
    /\ in_use # NoAmounts
    /\ \E i \in DOMAIN leases : ~leases[i].released

(***************************************************************************)
(* Properties of analyze_files                                             *)
(***************************************************************************)
\* C13: when analyze_files returns, the returned list has one result per
\* entry of the input list, in the order of the input list, whatever the
\* order in which the worker tasks completed.
C13_InputOrderKept ==
    anPc = "returned" => returned = files

\* the same for input lists that name every resolved path once
InputOrderKeptForDistinctPaths ==
    (anPc = "returned" /\ Cardinality(Range(files)) = Len(files))
        => returned = files

\* C14: when some tasks fail with an I/O error, analyze_files still ends with
\* a result list that holds, in input order, the results of all the files
\* whose task did not fail.
C14_FailureIsolated ==
    anPc \in {"returned", "raised"}
        => /\ anPc = "returned"
           /\ returned = SelectSeq(files, LAMBDA p : p \notin failing)

C16_CancelStopsAtBoundary ==
    [][state = "CANCELLED" =>
          /\ ~(rpc = "block" /\ rpc' = "row")
          /\ ~(checkpoint # <<>> /\ checkpoint' = <<>>)]_vars

(***************************************************************************)
(* Properties of the output paths                                          *)
(***************************************************************************)
\* C17: during one run no chunk path is open in two schema writers at the
\* same time, and no chunk path is written by two schema writers.
C17_ChunkPathsExclusive ==
    /\ \A w1, w2 \in SchemaJobs :
          (w1 # w2 /\ openPath[w1] # <<>>) => openPath[w1] # openPath[w2]
    /\ \A p, q \in writtenBy : p[1] = q[1] => p[2] = q[2]

(***************************************************************************)
(* Properties of the checkpoint file                                       *)
(***************************************************************************)
\* C18: every load, also one that follows a crash in the middle of a save
\* or competes with a save, returns the complete payload stored before that
\* save or the complete payload of that save, never an empty or cut one.
C18_LoadSeesCompleteBlob ==
    [][\A t \in Threads :
          (ckpc[t] = "load" /\ ckpc'[t] = "idle" /\ ckResult'[t] # <<"none">>)
              => ckResult'[t] \in {ckStored, ckNew}]_vars

(***************************************************************************)
(* Properties of detect_offsets                                            *)
(***************************************************************************)
\* the indices that occur most often among the positions
Modes(positions) ==
    LET present == {positions[k].column_index : k \in 1..Len(positions)}
    IN {i \in present :
          \A m \in present :
             index_count(positions, m) <= index_count(positions, i)}

\* the place of the first occurrence of index i in the positions
FirstOccurrence(positions, i) ==
    CHOOSE k \in 1..Len(positions) :
        /\ positions[k].column_index = i
        /\ \A n \in 1..(k - 1) : positions[n].column_index # i

C20_ArtifactsIdentical ==
    (\A r \in Runs : hcPc[r] = "serialized") => artifact[1] = artifact[2]

\* the serialized clusters without their identifiers
WithoutIds(a) ==
    [i \in 1..Len(a) |-> [a[i] EXCEPT !.cluster_id = "-"]]

\* the two runs agree on the order of the clusters and on every field but
\* the identifier
ArtifactsIdenticalUpToIds ==
    (\A r \in Runs : hcPc[r] = "serialized")
        => WithoutIds(artifact[1]) = WithoutIds(artifact[2])

(***************************************************************************)
(* Properties of the MappingConfig round trip                              *)
(***************************************************************************)
\* x with the sample values taken out
WithoutSamples(x) ==
    [x EXCEPT !.blocks = [k \in 1..Len(x.blocks) |->
                             [x.blocks[k] EXCEPT !.sample_values = {}]]]

\* C21: from_dict(x.to_dict()) returns a MappingConfig equal to x except for
\* the sample values, also when an entry of the schema mapping has a
\* target_index of None, and the schema ids and block schema_ids are those
\* of x.
C21_RoundTrip ==
    mcPc = "restored"
        => /\ restored[1].raised = ""
           /\ WithoutSamples(restored[1]) =
                 WithoutSamples([raised |-> ""] @@ mapping)

(***************************************************************************)
(* Properties of the progress-event retention                              *)
(***************************************************************************)
\* the ids of the `keep` most recent inserts of a schema
MostRecentlyInserted(log, schema_id, keep) ==
    {i \in 1..Len(log) :
        /\ log[i] = schema_id
        /\ Cardinality({j \in (i + 1)..Len(log) : log[j] = schema_id}) < keep}

\* after a call the inserted event's schema has at most the limit of rows
C22_AtMostLimitRows ==
    \A s \in SchemaIds :
        Cardinality(rows_of(job_progress_events, s))
            <= MAX_PROGRESS_EVENTS_PER_SCHEMA

\* a call leaves the rows of every other schema as they were
C22_OtherSchemasUntouched ==
    [][last_id' = last_id + 1
          => \A s \in SchemaIds \ {evLog'[last_id']} :
                rows_of(job_progress_events', s)
                    = rows_of(job_progress_events, s)]_vars

\* C22: after every record_progress_event call the table holds at most
\* MAX_PROGRESS_EVENTS_PER_SCHEMA rows of the inserted event's schema, these
\* are the most recently inserted rows of that schema, and the rows of every
\* other schema are unchanged.
C22_KeepsMostRecentlyInserted ==
    [][last_id' = last_id + 1
          => LET s == evLog'[last_id']
             IN /\ Cardinality(rows_of(job_progress_events', s))
                      <= MAX_PROGRESS_EVENTS_PER_SCHEMA
                /\ {r.id : r \in rows_of(job_progress_events', s)}
                      = MostRecentlyInserted(evLog', s,
                                             MAX_PROGRESS_EVENTS_PER_SCHEMA)
                /\ \A o \in SchemaIds \ {s} :
                      rows_of(job_progress_events', o)
                          = rows_of(job_progress_events, o)]_vars

(***************************************************************************)
(* Properties of ValidationTracker.normalize                               *)
(***************************************************************************)
\* the row is counted in at most one of short_rows and long_rows, by the
\* observed length
C23_CountedOnce ==
    vtResult # <<>>
        => LET hint == length_hint(vtValues, vtObserved)
           IN /\ short_rows + long_rows <= 1
              /\ short_rows = 1 <=> hint < expected_columns
              /\ long_rows = 1 <=> hint > expected_columns

C24_CheckpointAfterFlush ==
    [][/\ (checkpoint' # checkpoint /\ checkpoint' # <<>>)
            => /\ rpc = "checkpoint"
               /\ buffer = <<>>
               /\ Range(pushed) \subseteq Range(wr.written)
               /\ checkpoint'[1].next_block = idx + 1
               /\ checkpoint # <<>>
                     => checkpoint'[1].next_block > checkpoint[1].next_block
       /\ (checkpoint # <<>> /\ checkpoint' = <<>>)
            => /\ rpc = "clear"
               /\ idx = Len(blocks)
               /\ ~wr.handle]_vars

\* the same, for the steps other than a kill inside _persist
C24_ExceptKillInsidePersist ==
    [][(crashes' = crashes \/ checkpoint' = checkpoint \/ rpc = "clear")
          => /\ (checkpoint' # checkpoint /\ checkpoint' # <<>>)
                   => /\ rpc = "checkpoint"
                      /\ buffer = <<>>
                      /\ Range(pushed) \subseteq Range(wr.written)
                      /\ checkpoint'[1].next_block = idx + 1
                      /\ checkpoint # <<>>
                            => checkpoint'[1].next_block
                                  > checkpoint[1].next_block
             /\ (checkpoint # <<>> /\ checkpoint' = <<>>)
                   => /\ rpc = "clear"
                      /\ idx = Len(blocks)
                      /\ ~wr.handle]_vars

\* the source rows a reader finds in the finished output: the rows of the
\* table, or of the Parquet files that were closed with their footer
OutputRows ==
    IF fmt = "database" THEN {wr.table[i][3] : i \in 1..Len(wr.table)}
    ELSE UNION {Range(wr.files[c]) : c \in DOMAIN wr.files \cap wr.finalized}

\* C25: a Parquet or database run resumed from a persisted checkpoint ends
\* with output that holds the total_rows rows the checkpoint counts, which
\* are the rows of the blocks before next_block, and the rows of the
\* remaining blocks: every source row of the schema.
C25_CheckpointedRowsSurvive ==
    (rpc = "done" /\ fmt \in {"parquet", "database"} /\ startCkpt # <<>>)
        => /\ SourceRows \subseteq OutputRows
           /\ Cardinality(OutputRows) >= startCkpt[1].total_rows

\* the parallel branch is taken and no task fails
ParallelNoFailure == max_workers > 1 /\ Range(files) \cap failing = {}

\* how often path p occurs in the sequence s
CountIn(s, p) == Cardinality({i \in 1..Len(s) : s[i] = p})

\* the loop has ended with every task taken from the iterator once and one
\* result and one FileProgress event per entry of the input list
AllSubmittedOnce ==
    /\ task_iter = Len(files)
    /\ in_flight = {}
    /\ \A p \in Paths : /\ CountIn(results, p) = CountIn(files, p)
                        /\ CountIn(progress_events, p) = CountIn(files, p)

\* C26: with max_parallel_files > 1 and no failing task the scheduling loop
\* always terminates, and it ends with every input file submitted exactly
\* once and exactly one FileProgress event per file, for every completion
\* order and every movement of the throttle limit.
C26_LoopTerminates ==
    (ParallelNoFailure /\ anPc = "ready")
        ~> (anPc = "returned" /\ AllSubmittedOnce)

C26_Witness ==
    /\ ParallelNoFailure
    /\ anPc = "returned"
    /\ Len(files) > max_workers
    /\ limit < max_workers

(***************************************************************************)
(* Properties of iter_block_buffers                                        *)
(***************************************************************************)
YieldedBlocks == [k \in 1..Len(yielded) |-> yielded[k].block]

\* C27: iter_block_buffers yields every block of the plan exactly once and
\* in ascending start_line order: what was yielded so far is always the
\* beginning of the plan, and when the generator ends it is the whole plan,
\* also with overlapping blocks, a file that ends before a block's end_line
\* and lines dropped by the byte cap.
C27_EveryBlockOnceInOrder ==
    /\ YieldedBlocks = SubSeq(ibPlan, 1, Len(yielded))
    /\ \A i, j \in 1..Len(yielded) :
         i < j => yielded[i].block.start_line <= yielded[j].block.start_line
    /\ ibPc = "done" => Len(yielded) = Len(ibPlan)

(***************************************************************************)
(* Properties of _link_nodes                                               *)
(***************************************************************************)
\* the clusters of run r as a set of sets of node keys
Partition(r) == {Range(grouped[r][g]) : g \in 1..Len(grouped[r])}

KeysOf(r) == {lnNodes[r][i].key : i \in 1..Len(lnNodes[r])}

\* every node of run r lies in exactly one of its clusters
C28_EveryNodeInOneCluster ==
    \A r \in LinkRuns : lnPc[r] = "linked" =>
        \A key \in KeysOf(r) :
            Cardinality({g \in 1..Len(grouped[r]) :
                           Cardinality({m \in 1..Len(grouped[r][g]) :
                                          grouped[r][g][m] = key}) = 1}) = 1

\* the edge the code tests between two nodes of run r: a shared non-empty
\* alias, or _should_link(left, right) with left the earlier node
Edge(r, i, j) ==
    LET left == lnNodes[r][IF i < j THEN i ELSE j]
        right == lnNodes[r][IF i < j THEN j ELSE i]
    IN i # j /\ should_link(left, right)

\* the positions linked to position i by a chain of edges, from the set found
RECURSIVE Reach(_, _)
Reach(r, found) ==
    LET more == found \cup {j \in 1..Len(lnNodes[r]) :
                             \E i \in found : Edge(r, i, j)}
    IN IF more = found THEN found ELSE Reach(r, more)

\* two nodes are in the same cluster if and only if a chain of edges, each
\* tested as the code tests it, connects them
C28_ClustersAreComponents ==
    \A r \in LinkRuns : lnPc[r] = "linked" =>
        Partition(r) = {{lnNodes[r][j].key : j \in Reach(r, {i})} :
                          i \in 1..Len(lnNodes[r])}

\* C28: the union-find puts two header nodes into the same cluster if and
\* only if a chain of nodes connects them in which each consecutive pair
\* shares a non-empty alias or satisfies should_link, every node belongs to
\* exactly one cluster, and the partition does not depend on the order of
\* the nodes: two runs over the same nodes in different orders end with the
\* same clusters.
C28_PartitionIndependentOfOrder ==
    (\A r \in LinkRuns : lnPc[r] = "linked") => Partition(1) = Partition(2)

(***************************************************************************)
(* Properties of ResourceLease.release                                     *)
(***************************************************************************)
\* C29: the amounts of a lease are subtracted from the in-use totals exactly
\* once, however often and from however many threads release is called on
\* it: no thread subtracts the (non-zero) amounts of a lease that is already
\* marked released or whose amounts another thread has subtracted and is
\* about to mark.
C29_SubtractedOnce ==
    [][\A t \in Threads :
          (/\ rth[t].pc = "release_lock"
           /\ rth'[t].pc = "release_mark"
           /\ rth[t].req # NoAmounts)
          => /\ ~leases[rth[t].lease].released
             /\ \A u \in Threads \ {t} :
                   ~(rth[u].pc = "release_mark" /\ rth[u].lease = rth[t].lease)]_vars

(***************************************************************************)
(* Properties of RowNormalizer.normalize                                   *)
(***************************************************************************)
\* the output positions that hold the cell
PositionsOf(values, cell) == {p \in 1..Len(values) : values[p] = cell}

\* the entry the index keeps for the source column, if any
EntryOf(source) ==
    LET kept == build_index(rnMappings).entries
    IN SelectSeq(kept, LAMBDA e : e.source_index = source)

\* C30: RowNormalizer.normalize loses no source cell: every cell row[i] is at
\* exactly one output position, at the target index of its entry when the
\* entry resolves to one, and observed_length is the width of the input row.
C30_NoCellLost ==
    rnResult # <<>> =>
        /\ rnResult[1].observed_length = Len(rnRow)
        /\ \A i \in 1..Len(rnRow) :
              /\ Cardinality(PositionsOf(rnResult[1].values, i)) = 1
              /\ LET e == EntryOf(i - 1)
                 IN (e # <<>> /\ resolve_target_index(e[1]) # <<>>)
                    => rnResult[1].values[resolve_target_index(e[1])[1] + 1] = i

\* the same for mappings that send different source columns to different
\* targets: a row shorter than a mapped source column still loses a cell
C30_NoCellLostInjective ==
    (\A a, b \in 1..Len(rnMappings) :
        (/\ resolve_target_index(rnMappings[a]) # <<>>
         /\ resolve_target_index(rnMappings[a])
              = resolve_target_index(rnMappings[b]))
        => rnMappings[a].source_index = rnMappings[b].source_index)
    => C30_NoCellLost

====
